---- MODULE Spec2Model ----
(***************************************************************************)
(* Model of the generation / verification / replan orchestration of        *)
(* src/api/orchestrator.ts.  The file holds two definitions of the module: *)
(* the first (lines 1-386) drives up to MAX_ATTEMPTS attempts with review  *)
(* and replanning, the second (lines 388-784) runs one attempt and skips   *)
(* the review.  The variable rev says which definition a run executes.     *)
(* Two smaller machines share the module: the response sanitizer applied   *)
(* to a text on its own (SpecSanitizer), and the POST /make handler with   *)
(* processRequest of src/api/index.ts (SpecRequest).                       *)
(*                                                                         *)
(* Texts are sequences of one-character strings.  The characters "T", "F", *)
(* "S", "M", "E", "N" and the digits "1".."4" each stand for one complete  *)
(* JSON value (see JSONValue and PlanOfChar); every other character is an  *)
(* ordinary character.                                                     *)
(***************************************************************************)
EXTENDS Integers, Sequences, FiniteSets, TLC

\* ------------------------------------------------------------------ bounds
\* number of different contents the remote store can return for a path
MaxRemoteVersions == 1

\* number of pieces an LLM response handed to the sanitizer is made of
MaxPieces == 5

\* number of concurrent callers of getAuthenticatedUser
MaxCallers == 3

\* number of concurrent calls of commitMultipleFiles on one repository
MaxWriters == 2

\* ------------------------------------------------------- program constants
MAX_ATTEMPTS == 3

\* number of status polls of enableAndDeployPages
maxAttempts == 20

REVIEW_FAILED_REASON == "LLM review process failed"

NO_REASON == "No reason provided"

\* --------------------------------------------------------------- text ops
\* the backtick character (written ^ here)
BT == "^"

NL == "\n"

FENCE == <<BT, BT, BT>>

IsWhitespace(c) == c \in {" ", NL}

RECURSIVE trimStart(_)
trimStart(s) ==
  IF s = <<>> THEN <<>>
  ELSE IF IsWhitespace(Head(s)) THEN trimStart(Tail(s)) ELSE s

RECURSIVE trimEnd(_)
trimEnd(s) ==
  IF s = <<>> THEN <<>>
  ELSE IF IsWhitespace(s[Len(s)]) THEN trimEnd(SubSeq(s, 1, Len(s) - 1)) ELSE s

trim(s) == trimEnd(trimStart(s))

startsWith(s, p) == Len(s) >= Len(p) /\ SubSeq(s, 1, Len(p)) = p

endsWith(s, p) == Len(s) >= Len(p) /\ SubSeq(s, Len(s) - Len(p) + 1, Len(s)) = p

\* String.prototype.indexOf for a single character, 0-based, -1 when absent
indexOf(s, c) ==
  IF \E i \in 1..Len(s) : s[i] = c
  THEN (CHOOSE i \in 1..Len(s) : s[i] = c /\ \A j \in 1..(i - 1) : s[j] # c) - 1
  ELSE -1

\* s.slice(n) for 0 <= n
sliceFrom(s, n) == IF n >= Len(s) THEN <<>> ELSE SubSeq(s, n + 1, Len(s))

\* s.replace(/<six backticks>/g, ""): every non-overlapping run of six backticks,
\* scanning from the left, is removed
SIX == FENCE \o FENCE

RECURSIVE removeSix(_)
removeSix(s) ==
  IF s = <<>> THEN <<>>
  ELSE IF startsWith(s, SIX) THEN removeSix(sliceFrom(s, 6))
  ELSE <<Head(s)>> \o removeSix(Tail(s))

\* Orchestrator.cleanContent (first definition)
cleanContent(rawContent) == removeSix(trim(rawContent))

\* cleanCodeFence of utils.ts (used by the second definition)
cleanCodeFence(text) ==
  LET cleaned0 == trim(text)
      firstNewline == indexOf(cleaned0, NL)
      cleaned1 == IF startsWith(cleaned0, FENCE)
                  THEN IF firstNewline # -1
                       THEN sliceFrom(cleaned0, firstNewline + 1)
                       ELSE sliceFrom(cleaned0, 3)
                  ELSE cleaned0
  IN IF endsWith(cleaned1, FENCE)
     THEN trimEnd(SubSeq(cleaned1, 1, Len(cleaned1) - 3))
     ELSE cleaned1

\* the sanitizer each definition applies to an LLM response
Sanitize(r, text) == IF r = 1 THEN cleanContent(text) ELSE cleanCodeFence(text)

\* ------------------------------------------------------------------- JSON
\* the JSON values a verdict reply can consist of:
\*   T  {"approved": true,   "reason": "ok"}
\*   F  {"approved": false,  "reason": "bad"}
\*   S  {"approved": "true", "reason": "ok"}       (a string, not a boolean)
\*   M  {"reason": "bad"}                          (approved missing)
\*   E  {"approved": true}                         (reason missing)
\*   N  null
\* and the digits "1".."4", each the JSON text of one plan of PlanSet
VerdictChars == {"T", "F", "S", "M", "E", "N"}

PlanChars == {"1", "2", "3", "4"}

JSONChars == VerdictChars \cup PlanChars

JSONValue(c) ==
  CASE c = "T" -> [isNull |-> FALSE, approved |-> "true",   reason |-> "ok"]
    [] c = "F" -> [isNull |-> FALSE, approved |-> "false",  reason |-> "bad"]
    [] c = "S" -> [isNull |-> FALSE, approved |-> "string", reason |-> "ok"]
    [] c = "M" -> [isNull |-> FALSE, approved |-> "undefined", reason |-> "bad"]
    [] c = "E" -> [isNull |-> FALSE, approved |-> "true",   reason |-> ""]
    [] c \in PlanChars -> [isNull |-> FALSE, approved |-> "undefined", reason |-> ""]
    [] OTHER   -> [isNull |-> TRUE,  approved |-> "undefined", reason |-> ""]

\* JSON.parse: surrounding whitespace is allowed, anything else but one
\* value is a SyntaxError
JSONparse(text) ==
  LET t == trim(text)
  IN IF Len(t) = 1 /\ t[1] \in JSONChars
     THEN [ok |-> TRUE, value |-> JSONValue(t[1])]
     ELSE [ok |-> FALSE, value |-> JSONValue("N")]

\* ------------------------------------------------------------------ plans
Task(n, ph, g, u) ==
  [name |-> n, phase |-> ph, file_to_generate |-> g, file_to_update |-> u]

Entry(p, d) == [path |-> p, depends_on |-> d]

\* a.js (phase 0, no dependency) and b.js (phase 1, depends on a.js);
\* hosting platform marker set
PlanAB ==
  [implementation_sequence |-> << Task("init", 0, "a.js", ""),
                                  Task("main", 1, "b.js", "") >>,
   has_manifest |-> TRUE,
   file_manifest |-> << Entry("a.js", <<>>), Entry("b.js", <<"a.js">>) >>,
   platform |-> "github-pages", approach |-> "client-side-app"]

\* phase numbers appear out of order (1, 0, 1); b.js is generated before
\* the a.js it depends on; z.js is named by no manifest entry
PlanUnordered ==
  [implementation_sequence |-> << Task("late", 1, "b.js", ""),
                                  Task("early", 0, "a.js", ""),
                                  Task("last", 1, "", "c.js") >>,
   has_manifest |-> TRUE,
   file_manifest |-> << Entry("a.js", <<>>), Entry("b.js", <<"a.js">>),
                        Entry("c.js", <<"b.js", "z.js">>) >>,
   platform |-> "none", approach |-> "static-spa"]

\* a task without a path, a task with both paths, a path generated and
\* later updated
PlanMixed ==
  [implementation_sequence |-> << Task("gen", 0, "a.js", ""),
                                  Task("skip", 0, "", ""),
                                  Task("both", 1, "b.js", "c.js"),
                                  Task("upd", 1, "", "a.js") >>,
   has_manifest |-> TRUE,
   file_manifest |-> << Entry("a.js", <<"b.js">>), Entry("b.js", <<"a.js">>) >>,
   platform |-> "none", approach |-> "client-side-app"]

\* the plan JSON carries no file_manifest key and its only task names no file
PlanNoManifest ==
  [implementation_sequence |-> << Task("skip", 0, "", "") >>,
   has_manifest |-> FALSE,
   file_manifest |-> <<>>,
   platform |-> "github-pages", approach |-> "static-spa"]

PlanSet == {PlanAB, PlanUnordered, PlanMixed, PlanNoManifest}

\* ------------------------------------------------- Map<string, string>
\* a Map is the sequence of its entries in insertion order
MapHas(m, k) == \E i \in 1..Len(m) : m[i].path = k

MapGet(m, k) == m[CHOOSE i \in 1..Len(m) : m[i].path = k].content

\* variant of MapSet in which a key that is set again moves to the end
MapSetMovingLast(m, k, v) ==
  LET others == SelectSeq(m, LAMBDA e : e.path # k)
  IN Append(others, [path |-> k, content |-> v])

\* Map.prototype.set: an existing key keeps its position
MapSet(m, k, v) ==
  IF MapHas(m, k)
  THEN [i \in 1..Len(m) |-> IF m[i].path = k THEN [path |-> k, content |-> v] ELSE m[i]]
  ELSE Append(m, [path |-> k, content |-> v])

RECURSIVE MapDelete(_, _)
MapDelete(m, k) ==
  IF m = <<>> THEN <<>>
  ELSE IF Head(m).path = k THEN MapDelete(Tail(m), k)
       ELSE <<Head(m)>> \o MapDelete(Tail(m), k)

MapKeys(m) == [i \in 1..Len(m) |-> m[i].path]

MapKeySet(m) == {m[i].path : i \in 1..Len(m)}

\* ------------------------------------------------------------ Phase Runner
\* groupByPhase: the reduce over the sequence; a group is created when its
\* phase number is first met, and the Map keeps the groups in that order.
\* Tasks are named by their index in implementation_sequence.
RECURSIVE groupFrom(_, _, _)
groupFrom(sequence, i, phases) ==
  IF i > Len(sequence) THEN phases
  ELSE LET phase == sequence[i].phase
           has == \E g \in 1..Len(phases) : phases[g].phase = phase
           withKey == IF has THEN phases
                      ELSE Append(phases, [phase |-> phase, tasks |-> <<>>])
           pushed == [g \in 1..Len(withKey) |->
                        IF withKey[g].phase = phase
                        THEN [withKey[g] EXCEPT !.tasks = Append(@, i)]
                        ELSE withKey[g]]
       IN groupFrom(sequence, i + 1, pushed)

groupByPhase(sequence) == groupFrom(sequence, 1, <<>>)

\* the order in which execute / executePhase reach the tasks
RECURSIVE Flatten(_)
Flatten(phases) ==
  IF phases = <<>> THEN <<>> ELSE Head(phases).tasks \o Flatten(Tail(phases))

executeOrder(plan) == Flatten(groupByPhase(plan.implementation_sequence))

\* task.file_to_generate || task.file_to_update
filePathOf(task) ==
  IF task.file_to_generate # "" THEN task.file_to_generate ELSE task.file_to_update

\* task.file_to_update ? "update" : "create"
operationOf(task) == IF task.file_to_update # "" THEN "update" ELSE "create"

\* ----------------------------------------------------------- File Generator
\* file_manifest.find(m => m.path === filePath)
manifestFind(plan, filePath) ==
  LET fm == plan.file_manifest
      hit == {i \in 1..Len(fm) : fm[i].path = filePath}
  IN IF hit = {} THEN [found |-> FALSE, entry |-> Entry(filePath, <<>>)]
     ELSE [found |-> TRUE,
           entry |-> fm[CHOOSE i \in hit : \A j \in hit : i <= j]]

RECURSIVE FilterNonEmpty(_)
FilterNonEmpty(deps) ==
  IF deps = <<>> THEN <<>>
  ELSE IF Head(deps).content # <<>>
       THEN <<Head(deps)>> \o FilterNonEmpty(Tail(deps))
       ELSE FilterNonEmpty(Tail(deps))

\* the declared dependencies of a path
DeclaredDeps(plan, filePath) ==
  LET deps == manifestFind(plan, filePath).entry.depends_on
  IN {deps[i] : i \in 1..Len(deps)}

\* variant of getDependencyContents that reads the content of a dependency
\* without the "|| ''" default and so throws when it was not generated yet
getDependencyContentsStrict(filePath, plan, generatedFiles) ==
  IF ~plan.has_manifest THEN [threw |-> TRUE, value |-> <<>>]
  ELSE LET deps == manifestFind(plan, filePath).entry.depends_on
       IN IF \E i \in 1..Len(deps) : ~MapHas(generatedFiles, deps[i])
          THEN [threw |-> TRUE, value |-> <<>>]
          ELSE [threw |-> FALSE,
                value |-> FilterNonEmpty(
                  [i \in 1..Len(deps) |->
                     [path |-> deps[i], content |-> MapGet(generatedFiles, deps[i])]])]

\* getDependencyContents: a TypeError when the plan has no file_manifest,
\* otherwise the declared dependencies that have non-empty content
getDependencyContents(filePath, plan, generatedFiles) ==
  IF ~plan.has_manifest THEN [threw |-> TRUE, value |-> <<>>]
  ELSE LET manifest == manifestFind(plan, filePath)
           deps == manifest.entry.depends_on
       IN IF ~manifest.found \/ deps = <<>> THEN [threw |-> FALSE, value |-> <<>>]
          ELSE [threw |-> FALSE,
                value |-> FilterNonEmpty(
                  [i \in 1..Len(deps) |->
                     [path |-> deps[i],
                      content |-> IF MapHas(generatedFiles, deps[i])
                                  THEN MapGet(generatedFiles, deps[i])
                                  ELSE <<>>]])]

\* buildPrompt (first definition): the request carries the dependency files
buildPrompt(filePath, plan, generatedFiles) ==
  LET dependencies == getDependencyContents(filePath, plan, generatedFiles)
  IN [threw |-> dependencies.threw,
      value |-> [path |-> filePath, dependencies |-> dependencies.value]]

\* the prompt of the second definition of generateFileContent: the names of
\* the dependencies only ("Depends on: ..."), none of their contents
buildPrompt2(filePath, plan, generatedFiles) ==
  [threw |-> ~plan.has_manifest,
   value |-> [path |-> filePath, dependencies |-> <<>>]]

\* callLLMWithFallback: primary and fallback are the outcomes the two
\* providers have for this request
Failed == [ok |-> FALSE, text |-> <<>>]

Reply(t) == [ok |-> TRUE, text |-> t]

\* variant of callLLMWithFallback that asks the fallback provider as well
\* when the primary answered
callLLMWithFallbackAlways(primary, fallback) ==
  IF primary.ok
  THEN [threw |-> FALSE, text |-> primary.text, primaryCalls |-> 1, fallbackCalls |-> 1]
  ELSE [threw |-> ~fallback.ok, text |-> fallback.text,
        primaryCalls |-> 1, fallbackCalls |-> 1]

callLLMWithFallback(primary, fallback) ==
  IF primary.ok
  THEN [threw |-> FALSE, text |-> primary.text, primaryCalls |-> 1, fallbackCalls |-> 0]
  ELSE [threw |-> ~fallback.ok, text |-> fallback.text,
        primaryCalls |-> 1, fallbackCalls |-> 1]

\* generateFileContent of the definition r
generateFileContent(r, filePath, plan, generatedFiles, primary, fallback) ==
  LET prompt == IF r = 1 THEN buildPrompt(filePath, plan, generatedFiles)
                ELSE buildPrompt2(filePath, plan, generatedFiles)
      response == callLLMWithFallback(primary, fallback)
  IN IF prompt.threw
     THEN [threw |-> TRUE, error |-> "TypeError", request |-> prompt.value,
           content |-> <<>>, primaryCalls |-> 0, fallbackCalls |-> 0]
     ELSE [threw |-> response.threw,
           error |-> IF response.threw THEN "generation" ELSE "",
           request |-> prompt.value,
           content |-> IF response.threw THEN <<>> ELSE Sanitize(r, response.text),
           primaryCalls |-> response.primaryCalls,
           fallbackCalls |-> response.fallbackCalls]

\* ---------------------------------------------------------------- Reviewer
\* buildRepoSnapshot: the path listing followed by every file's content
buildRepoSnapshot(generatedFiles) ==
  [structure |-> MapKeys(generatedFiles), contents |-> generatedFiles]

\* variant of getLLMReview that approves on any truthy approved field
getLLMReviewTruthy(r, plan, primary, fallback) ==
  LET response == callLLMWithFallback(primary, fallback)
      parsed == JSONparse(Sanitize(r, response.text))
      review == parsed.value
      caught == response.threw \/ ~parsed.ok \/ review.isNull
  IN IF ~plan.has_manifest
     THEN [threw |-> TRUE, approved |-> FALSE, reason |-> ""]
     ELSE IF caught
     THEN [threw |-> FALSE, approved |-> FALSE, reason |-> REVIEW_FAILED_REASON]
     ELSE [threw |-> FALSE,
           approved |-> (review.approved \in {"true", "string"}),
           reason |-> IF review.reason # "" THEN review.reason ELSE NO_REASON]

\* variant of getLLMReview without the catch block: a failed call or an
\* unreadable verdict is thrown
getLLMReviewRethrowing(r, plan, primary, fallback) ==
  LET response == callLLMWithFallback(primary, fallback)
      parsed == JSONparse(Sanitize(r, response.text))
      review == parsed.value
      caught == response.threw \/ ~parsed.ok \/ review.isNull
  IN IF ~plan.has_manifest \/ caught
     THEN [threw |-> TRUE, approved |-> FALSE, reason |-> ""]
     ELSE [threw |-> FALSE,
           approved |-> (review.approved = "true"),
           reason |-> IF review.reason # "" THEN review.reason ELSE NO_REASON]

\* getLLMReview: the prompt is built before the try block (it reads
\* ctx.plan.file_manifest); the call, the parse and the reading of the
\* verdict are inside it
getLLMReview(r, plan, primary, fallback) ==
  LET response == callLLMWithFallback(primary, fallback)
      parsed == JSONparse(Sanitize(r, response.text))
      review == parsed.value
      caught == response.threw \/ ~parsed.ok \/ review.isNull
  IN IF ~plan.has_manifest
     THEN [threw |-> TRUE, approved |-> FALSE, reason |-> ""]
     ELSE IF caught
     THEN [threw |-> FALSE, approved |-> FALSE, reason |-> REVIEW_FAILED_REASON]
     ELSE [threw |-> FALSE,
           approved |-> (review.approved = "true"),
           reason |-> IF review.reason # "" THEN review.reason ELSE NO_REASON]

VerificationResult(ok, errs, why) ==
  [success |-> ok, errors |-> errs, warnings |-> <<>>, reviewReason |-> why]

\* variant of verifyDeployment that reports a rejection as a warning
verifyDeploymentWarning(r, plan, generatedFiles, primary, fallback) ==
  LET repoSnapshot == buildRepoSnapshot(generatedFiles)
      reviewDecision == getLLMReview(r, plan, primary, fallback)
  IN [threw |-> reviewDecision.threw,
      snapshot |-> repoSnapshot,
      result |-> [success |-> reviewDecision.approved,
                  errors |-> <<>>,
                  warnings |-> IF reviewDecision.approved THEN <<>>
                               ELSE << <<"LLM Review Failed: ", reviewDecision.reason>> >>,
                  reviewReason |-> reviewDecision.reason]]

verifyDeployment(r, plan, generatedFiles, primary, fallback) ==
  LET repoSnapshot == buildRepoSnapshot(generatedFiles)
      reviewDecision == getLLMReview(r, plan, primary, fallback)
  IN [threw |-> reviewDecision.threw,
      snapshot |-> repoSnapshot,
      result |-> VerificationResult(
                   reviewDecision.approved,
                   IF reviewDecision.approved THEN <<>>
                   ELSE << <<"LLM Review Failed: ", reviewDecision.reason>> >>,
                   reviewDecision.reason)]

\* --------------------------------------------------------------- Replanner
PlanOfChar(c) ==
  CASE c = "1" -> PlanAB
    [] c = "2" -> PlanUnordered
    [] c = "3" -> PlanMixed
    [] OTHER   -> PlanNoManifest

\* verification.reviewReason || "Unknown issue"
feedbackOf(reviewReason) == IF reviewReason = "" THEN "Unknown issue" ELSE reviewReason

\* what the replan prompt carries of the run: the rejected plan and the
\* rejection reason
replanPrompt(previousPlan, feedback) ==
  [previousPlan |-> previousPlan, feedback |-> feedback]

\* replanWithFeedback: JSON.parse of the sanitized reply (the replies of the
\* model are plan texts or not JSON at all)
replanWithFeedback(r, primary, fallback) ==
  LET response == callLLMWithFallback(primary, fallback)
      parsed == JSONparse(Sanitize(r, response.text))
      t == trim(Sanitize(r, response.text))
  IN IF response.threw THEN [threw |-> TRUE, error |-> "replan", plan |-> PlanAB]
     ELSE IF ~parsed.ok
     THEN [threw |-> TRUE, error |-> "SyntaxError", plan |-> PlanAB]
     ELSE [threw |-> FALSE, error |-> "", plan |-> PlanOfChar(t[1])]

\* -------------------------------------------------------- environment sets
FencedText(label, body) == FENCE \o label \o <<NL>> \o body \o <<NL>> \o FENCE

GenTexts == { <<"x">>, <<>>, FencedText(<<"j">>, <<"y">>) }

\* replies of the review request: an approval, a rejection, text that is
\* not JSON, and an approval inside a code fence
ReviewTexts == { <<"T">>, <<"F">>, <<"x">>, FencedText(<<"j">>, <<"T">>) }

\* replies of the Replanner: PlanAB, PlanMixed, PlanNoManifest, text that is
\* not JSON, and PlanAB inside a code fence
ReplanTexts == { <<"1">>, <<"3">>, <<"4">>, <<"x">>, FencedText(<<>>, <<"1">>) }

\* what the two providers answer to one request: the fallback's answer only
\* matters when the primary failed
Outcomes(texts) ==
  { <<Reply(t), Failed>> : t \in texts }
    \cup { <<Failed, f>> : f \in {Failed} \cup { Reply(t) : t \in texts } }

\* what getFileContent can resolve with: "r", "rr", ...
RemoteTexts == { [j \in 1..i |-> "r"] : i \in 1..MaxRemoteVersions }

DeployedUrl == "https://owner.github.io/project/"

\* ------------------------------------------------------------------- state
VARIABLES
  rev,                \* which definition of executeOrchestrator runs (1 or 2)
  reviewerApprovesAt, \* the first attempt the Reviewer approves (MAX_ATTEMPTS + 1: none)
  initialPlan,        \* the caller-supplied plan
  currentPlan,        \* currentPlan
  ctxPlan,            \* ctx.plan, the plan of the attempt in progress
  attempt,            \* attempt
  pc,                 \* position of the run
  queue,              \* tasks the phase run has still to reach, in its order
  generatedFiles,     \* ctx.generatedFiles
  content,            \* the content constant of the executeTask in progress
  invoked,            \* tasks executeTask was called for in this attempt
  skipWarnings,       \* tasks ctx.log.warn reported as skipped in this attempt
  genLog,             \* generation requests of this attempt
  commits,            \* commits of this attempt
  fetchRes,           \* state of the re-fetch of every generated path
  localFiles,         \* generatedFiles when the phase run completed
  reviewed,           \* the snapshot handed to the Reviewer in this attempt
  verification,       \* the VerificationResult of this attempt
  reviewCalls,        \* number of calls of verifyDeployment
  reviewReply,        \* what callLLMWithFallback gave the Reviewer in this attempt
  verdicts,           \* success of every review so far
  phaseRuns,          \* number of calls of execute
  replanCalls,        \* number of calls of replanWithFeedback
  deployCalls,        \* number of calls of enableAndDeployPages
  result,             \* what executeOrchestrator returned or threw
  lastCall,           \* the provider calls of the latest callLLMWithFallback
  raw,                \* an LLM response text handed to the sanitizer
  cleaned,            \* what the sanitizer returned for raw, then for its own output
  req,                \* a POST /make request and its processRequest
  llm,                \* one callLLMWithFallback seen from inside the two clients
  gh                  \* the GitHubService singleton, its callers and the remote side

vars == <<rev, reviewerApprovesAt, initialPlan, currentPlan, ctxPlan, attempt, pc, queue,
          generatedFiles, content, invoked, genLog, commits, fetchRes, localFiles,
          reviewed, verification, reviewCalls, reviewReply, verdicts,
          phaseRuns, replanCalls, deployCalls, result, lastCall, raw, cleaned, req,
          skipWarnings, llm, gh>>

NoVerification == VerificationResult(FALSE, <<>>, "none")

NoResult ==
  [kind |-> "none", error |-> "", detail |-> <<>>, deploymentUrl |-> "",
   verification |-> NoVerification, attempts |-> 0]

Success(url, v, n) ==
  [kind |-> "success", error |-> "", detail |-> <<>>, deploymentUrl |-> url,
   verification |-> v, attempts |-> n]

Thrown(e, d) ==
  [kind |-> "error", error |-> e, detail |-> d, deploymentUrl |-> "",
   verification |-> NoVerification, attempts |-> 0]

NoSnapshot == [structure |-> <<"none">>, contents |-> <<>>]

NoReply == [threw |-> FALSE, text |-> <<"none">>]

NoFetches == [p \in {} |-> [st |-> "pending", content |-> <<>>]]

\* the arguments of one client.generate(prompt, model, config)
GenerateArgs(prompt, model, config) ==
  [prompt |-> prompt, model |-> model, config |-> config]

\* the two closures generateFileContent hands to callLLMWithFallback
codeGenRequest(prompt) ==
  [primary  |-> GenerateArgs(prompt, "FLASH", "CODE_GEN"),
   fallback |-> GenerateArgs(prompt, "FLASH", "CODE_GEN")]

\* the two closures of getLLMReview
reviewRequest(prompt) ==
  [primary  |-> GenerateArgs(prompt, "FLASH", "REVIEW"),
   fallback |-> GenerateArgs(prompt, "FLASH", "REVIEW")]

\* the two closures of replanWithFeedback
replanRequest(prompt) ==
  [primary  |-> GenerateArgs(prompt, "FLASH", "REPLAN"),
   fallback |-> GenerateArgs(prompt, "FLASH", "REPLAN")]

\* what one callLLMWithFallback did: o is what the two providers answer,
\* response what callLLMWithFallback made of it
CallRecord(kind, request, o, response) ==
  [kind |-> kind,
   primaryArgs |-> request.primary, fallbackArgs |-> request.fallback,
   primaryOk |-> o[1].ok, fallbackOk |-> o[2].ok,
   primaryCalls |-> response.primaryCalls, fallbackCalls |-> response.fallbackCalls,
   threw |-> response.threw, text |-> response.text]

NoCall ==
  CallRecord("none", codeGenRequest(<<>>), <<Failed, Failed>>,
             [primaryCalls |-> 0, fallbackCalls |-> 0, threw |-> FALSE, text |-> <<>>])

\* a POST /make request: the server's SECRET_KEY, the body's secret and
\* evaluation_url, the status replied, the titles appended to the details
\* log, what the try block threw, the callback POSTs attempted, and the
\* error processRequest rejected with
Request(secretKey, secret, url, at) ==
  [pc |-> at, SECRET_KEY |-> secretKey, secret |-> secret, evaluation_url |-> url,
   status |-> 0, logged |-> <<>>, error |-> "", callbacks |-> <<>>, rejected |-> ""]

\* no request was received
NoRequest == Request(<<>>, <<>>, "", "none")

\* no callLLMWithFallback is followed inside the clients
NoLLM == [primary |-> "none", fallback |-> "none", pc |-> "none", calls |-> <<>>,
          threw |-> FALSE, text |-> <<>>]

\* a JSON object without members
EmptyObject == [k \in {} |-> ""]

\* private cachedUser: GitHubUser | null = null
NullUser == [truthy |-> FALSE, value |-> EmptyObject]

\* the GitHubService is not followed
NoGH == [cachedUser |-> NullUser, callers |-> <<>>]

Init ==
  /\ rev \in {1, 2}
  /\ reviewerApprovesAt \in 1..(MAX_ATTEMPTS + 1)
  /\ initialPlan \in PlanSet
  /\ currentPlan = initialPlan
  /\ ctxPlan = initialPlan
  /\ attempt = 1
  /\ pc = "loop"
  /\ queue = <<>>
  /\ generatedFiles = <<>>
  /\ content = <<>>
  /\ invoked = <<>>
  /\ genLog = <<>>
  /\ commits = <<>>
  /\ fetchRes = NoFetches
  /\ localFiles = <<>>
  /\ reviewed = NoSnapshot
  /\ verification = NoVerification
  /\ reviewCalls = 0
  /\ reviewReply = NoReply
  /\ verdicts = <<>>
  /\ phaseRuns = 0
  /\ replanCalls = 0
  /\ deployCalls = 0
  /\ result = NoResult
  /\ lastCall = NoCall
  /\ raw = <<>>
  /\ cleaned = <<>>
  /\ req = NoRequest
  /\ skipWarnings = <<>>
  /\ llm = NoLLM
  /\ gh = NoGH

envVars == <<rev, reviewerApprovesAt, initialPlan, raw, cleaned, req, llm, gh>>

\* currentPlan...hosting_compatibility?.platform === "github-pages" ||
\* currentPlan.execution_strategy?.approach === "static-spa"
isStaticSite(plan) == plan.platform = "github-pages" \/ plan.approach = "static-spa"

\* variant of canRetry that also replans after the last attempt
canRetryInclusive(a) == a <= MAX_ATTEMPTS

\* variant of canRetry without the bound on the attempts
canRetryAlways(a) == a >= 1

\* if (attempt < MAX_ATTEMPTS): a rejected attempt is followed by a replan
canRetry(a) == a < MAX_ATTEMPTS

\* variant of StartAttempt that hands the generatedFiles of the previous
\* attempt to the next one
StartAttemptSharingFiles ==
  /\ pc = "loop"
  /\ IF attempt <= MAX_ATTEMPTS
     THEN /\ generatedFiles' = generatedFiles
          /\ queue' = executeOrder(currentPlan)
          /\ phaseRuns' = phaseRuns + 1
          /\ pc' = "task"
          /\ result' = result
     ELSE /\ result' = Thrown("Orchestration failed", <<>>)
          /\ pc' = "thrown"
          /\ UNCHANGED <<generatedFiles, queue, phaseRuns>>
  /\ ctxPlan' = currentPlan
  /\ invoked' = <<>>
  /\ skipWarnings' = <<>>
  /\ genLog' = <<>>
  /\ commits' = <<>>
  /\ fetchRes' = NoFetches
  /\ localFiles' = <<>>
  /\ reviewed' = NoSnapshot
  /\ verification' = NoVerification
  /\ reviewReply' = NoReply
  /\ UNCHANGED lastCall
  /\ UNCHANGED <<envVars, currentPlan, attempt, content, reviewCalls, verdicts,
                 replanCalls, deployCalls>>

\* ------------------------------------------------------------------ actions
\* (the result of a call is bound with \E x \in { call } so that it is
\* computed once for the step)
\* the head of the while loop: a fresh ctx, then orchestrator.execute
StartAttempt ==
  /\ pc = "loop"
  /\ IF attempt <= MAX_ATTEMPTS
     THEN /\ generatedFiles' = <<>>
          /\ queue' = executeOrder(currentPlan)
          /\ phaseRuns' = phaseRuns + 1
          /\ pc' = "task"
          /\ result' = result
     ELSE /\ result' = Thrown("Orchestration failed", <<>>)
          /\ pc' = "thrown"
          /\ UNCHANGED <<generatedFiles, queue, phaseRuns>>
  /\ ctxPlan' = currentPlan
  /\ invoked' = <<>>
  /\ skipWarnings' = <<>>
  /\ genLog' = <<>>
  /\ commits' = <<>>
  /\ fetchRes' = NoFetches
  /\ localFiles' = <<>>
  /\ reviewed' = NoSnapshot
  /\ verification' = NoVerification
  /\ reviewReply' = NoReply
  /\ UNCHANGED lastCall
  /\ UNCHANGED <<envVars, currentPlan, attempt, content, reviewCalls, verdicts,
                 replanCalls, deployCalls>>

CurrentTask == ctxPlan.implementation_sequence[Head(queue)]

\* variant of SkipTask that returns from the phase run instead of from the
\* task
SkipTaskEndingPhase ==
  /\ pc = "task" /\ queue # <<>>
  /\ filePathOf(CurrentTask) = ""
  /\ skipWarnings' = Append(skipWarnings, Head(queue))
  /\ invoked' = Append(invoked, Head(queue))
  /\ queue' = <<>>
  /\ UNCHANGED lastCall
  /\ UNCHANGED <<envVars, currentPlan, ctxPlan, attempt, pc, generatedFiles, content, genLog,
                 commits, fetchRes, localFiles, reviewed, verification, reviewCalls,
                 reviewReply, verdicts, phaseRuns, replanCalls, deployCalls, result>>

\* executeTask for a task that names no file
SkipTask ==
  /\ pc = "task" /\ queue # <<>>
  /\ filePathOf(CurrentTask) = ""
  /\ skipWarnings' = Append(skipWarnings, Head(queue))
  /\ invoked' = Append(invoked, Head(queue))
  /\ queue' = Tail(queue)
  /\ UNCHANGED lastCall
  /\ UNCHANGED <<envVars, currentPlan, ctxPlan, attempt, pc, generatedFiles, content, genLog,
                 commits, fetchRes, localFiles, reviewed, verification, reviewCalls,
                 reviewReply, verdicts, phaseRuns, replanCalls, deployCalls, result>>

\* variant of GenerateTaskOn without the generatedFiles.set
GenerateTaskOnUnrecorded(texts) ==
  /\ pc = "task" /\ queue # <<>>
  /\ filePathOf(CurrentTask) # ""
  /\ \E o \in Outcomes(texts) :
     \E filePath \in { filePathOf(CurrentTask) } :
     \E g \in { generateFileContent(rev, filePath, ctxPlan, generatedFiles, o[1], o[2]) } :
          /\ invoked' = Append(invoked, Head(queue))
          /\ genLog' = IF g.primaryCalls > 0
                       THEN Append(genLog, [task |-> Head(queue), path |-> filePath,
                                            request |-> g.request,
                                            seen |-> generatedFiles,
                                            failed |-> g.threw])
                       ELSE genLog
          /\ lastCall' = IF g.primaryCalls > 0
                         THEN CallRecord("gen", codeGenRequest(g.request), o,
                                         callLLMWithFallback(o[1], o[2]))
                         ELSE lastCall
          /\ IF g.threw
             THEN /\ pc' = "thrown"
                  /\ result' = Thrown(g.error, <<>>)
                  /\ UNCHANGED <<generatedFiles, content>>
             ELSE /\ pc' = "commit"
                  /\ content' = g.content
                  /\ generatedFiles' = generatedFiles
                  /\ UNCHANGED result
  /\ UNCHANGED <<envVars, currentPlan, ctxPlan, attempt, queue, skipWarnings, commits, fetchRes, localFiles,
                 reviewed, verification, reviewCalls, reviewReply, verdicts, phaseRuns,
                 replanCalls, deployCalls>>

\* executeTask up to the commit: generateFileContent, generatedFiles.set
GenerateTaskOn(texts) ==
  /\ pc = "task" /\ queue # <<>>
  /\ filePathOf(CurrentTask) # ""
  /\ \E o \in Outcomes(texts) :
     \E filePath \in { filePathOf(CurrentTask) } :
     \E g \in { generateFileContent(rev, filePath, ctxPlan, generatedFiles, o[1], o[2]) } :
          /\ invoked' = Append(invoked, Head(queue))
          /\ genLog' = IF g.primaryCalls > 0
                       THEN Append(genLog, [task |-> Head(queue), path |-> filePath,
                                            request |-> g.request,
                                            seen |-> generatedFiles,
                                            failed |-> g.threw])
                       ELSE genLog
          /\ lastCall' = IF g.primaryCalls > 0
                         THEN CallRecord("gen", codeGenRequest(g.request), o,
                                         callLLMWithFallback(o[1], o[2]))
                         ELSE lastCall
          /\ IF g.threw
             THEN /\ pc' = "thrown"
                  /\ result' = Thrown(g.error, <<>>)
                  /\ UNCHANGED <<generatedFiles, content>>
             ELSE /\ pc' = "commit"
                  /\ content' = g.content
                  /\ generatedFiles' = MapSet(generatedFiles, filePath, g.content)
                  /\ UNCHANGED result
  /\ UNCHANGED <<envVars, currentPlan, ctxPlan, attempt, queue, skipWarnings, commits, fetchRes, localFiles,
                 reviewed, verification, reviewCalls, reviewReply, verdicts, phaseRuns,
                 replanCalls, deployCalls>>

GenerateTask == GenerateTaskOn(GenTexts)

\* variant of CommitTask that treats a failed commit as a rejected attempt
CommitTaskAsRejection ==
  /\ pc = "commit"
  /\ \E acked \in BOOLEAN :
       LET filePath == filePathOf(CurrentTask)
       IN /\ commits' = Append(commits,
                          [task |-> Head(queue),
                           files |-> << [path |-> filePath,
                                         content |-> content,
                                         operation |-> operationOf(CurrentTask)] >>,
                           message |-> <<CurrentTask.name, filePath, attempt>>,
                           acked |-> acked])
          /\ IF acked
             THEN /\ pc' = "task"
                  /\ queue' = Tail(queue)
                  /\ UNCHANGED result
             ELSE /\ pc' = "replan"
                  /\ UNCHANGED <<queue, result>>
  /\ UNCHANGED <<lastCall, skipWarnings>>
  /\ UNCHANGED <<envVars, currentPlan, ctxPlan, attempt, generatedFiles, content, invoked,
                 genLog, fetchRes, localFiles, reviewed, verification, reviewCalls,
                 reviewReply, verdicts, phaseRuns, replanCalls, deployCalls>>

\* variant of CommitTask in which a failed commit is passed over and the
\* phase run goes on with the next task
CommitTaskContinuing ==
  /\ pc = "commit"
  /\ \E acked \in BOOLEAN :
       LET filePath == filePathOf(CurrentTask)
       IN /\ commits' = Append(commits,
                          [task |-> Head(queue),
                           files |-> << [path |-> filePath,
                                         content |-> content,
                                         operation |-> operationOf(CurrentTask)] >>,
                           message |-> <<CurrentTask.name, filePath, attempt>>,
                           acked |-> acked])
          /\ pc' = "task"
          /\ queue' = Tail(queue)
          /\ UNCHANGED result
  /\ UNCHANGED <<lastCall, skipWarnings>>
  /\ UNCHANGED <<envVars, currentPlan, ctxPlan, attempt, generatedFiles, content, invoked,
                 genLog, fetchRes, localFiles, reviewed, verification, reviewCalls,
                 reviewReply, verdicts, phaseRuns, replanCalls, deployCalls>>

\* variant of CommitTask whose message always names the first attempt
CommitTaskFirstAttemptMessage ==
  /\ pc = "commit"
  /\ \E acked \in BOOLEAN :
       LET filePath == filePathOf(CurrentTask)
       IN /\ commits' = Append(commits,
                          [task |-> Head(queue),
                           files |-> << [path |-> filePath,
                                         content |-> content,
                                         operation |-> operationOf(CurrentTask)] >>,
                           message |-> <<CurrentTask.name, filePath, 1>>,
                           acked |-> acked])
          /\ IF acked
             THEN /\ pc' = "task"
                  /\ queue' = Tail(queue)
                  /\ UNCHANGED result
             ELSE /\ pc' = "thrown"
                  /\ result' = Thrown("commit", <<>>)
                  /\ UNCHANGED queue
  /\ UNCHANGED <<lastCall, skipWarnings>>
  /\ UNCHANGED <<envVars, currentPlan, ctxPlan, attempt, generatedFiles, content, invoked,
                 genLog, fetchRes, localFiles, reviewed, verification, reviewCalls,
                 reviewReply, verdicts, phaseRuns, replanCalls, deployCalls>>

\* the commitMultipleFiles call of executeTask
CommitTask ==
  /\ pc = "commit"
  /\ \E acked \in BOOLEAN :
       LET filePath == filePathOf(CurrentTask)
       IN /\ commits' = Append(commits,
                          [task |-> Head(queue),
                           files |-> << [path |-> filePath,
                                         content |-> content,
                                         operation |-> operationOf(CurrentTask)] >>,
                           message |-> <<CurrentTask.name, filePath, attempt>>,
                           acked |-> acked])
          /\ IF acked
             THEN /\ pc' = "task"
                  /\ queue' = Tail(queue)
                  /\ UNCHANGED result
             ELSE /\ pc' = "thrown"
                  /\ result' = Thrown("commit", <<>>)
                  /\ UNCHANGED queue
  /\ UNCHANGED <<lastCall, skipWarnings>>
  /\ UNCHANGED <<envVars, currentPlan, ctxPlan, attempt, generatedFiles, content, invoked,
                 genLog, fetchRes, localFiles, reviewed, verification, reviewCalls,
                 reviewReply, verdicts, phaseRuns, replanCalls, deployCalls>>

\* execute returned; after the settling delay one fetch per generated path
\* is started
StartSync ==
  /\ pc = "task" /\ queue = <<>>
  /\ pc' = "sync"
  /\ localFiles' = generatedFiles
  /\ fetchRes' = [p \in MapKeySet(generatedFiles) |-> [st |-> "pending", content |-> <<>>]]
  /\ UNCHANGED <<lastCall, skipWarnings>>
  /\ UNCHANGED <<envVars, currentPlan, ctxPlan, attempt, queue, generatedFiles, content,
                 invoked, genLog, commits, reviewed, verification, reviewCalls, reviewReply,
                 verdicts, phaseRuns, replanCalls, deployCalls, result>>

\* variant of Fetch that drops the entry of a path whose fetch failed
FetchDropping(p) ==
  /\ pc = "sync"
  /\ p \in DOMAIN fetchRes /\ fetchRes[p].st = "pending"
  /\ \/ \E remoteContent \in RemoteTexts :
          /\ generatedFiles' = MapSet(generatedFiles, p, remoteContent)
          /\ fetchRes' = [fetchRes EXCEPT ![p] = [st |-> "ok", content |-> remoteContent]]
     \/ /\ fetchRes' = [fetchRes EXCEPT ![p] = [st |-> "failed", content |-> <<>>]]
        /\ generatedFiles' = MapDelete(generatedFiles, p)
  /\ UNCHANGED <<lastCall, skipWarnings>>
  /\ UNCHANGED <<envVars, currentPlan, ctxPlan, attempt, pc, queue, content, invoked, genLog,
                 commits, localFiles, reviewed, verification, reviewCalls, reviewReply,
                 verdicts, phaseRuns, replanCalls, deployCalls, result>>

\* one getFileContent settles: it resolved with the remote content, which
\* is what was committed or something else, or it rejected
Fetch(p) ==
  /\ pc = "sync"
  /\ p \in DOMAIN fetchRes /\ fetchRes[p].st = "pending"
  /\ \/ \E remoteContent \in RemoteTexts :
          /\ generatedFiles' = MapSet(generatedFiles, p, remoteContent)
          /\ fetchRes' = [fetchRes EXCEPT ![p] = [st |-> "ok", content |-> remoteContent]]
     \/ /\ fetchRes' = [fetchRes EXCEPT ![p] = [st |-> "failed", content |-> <<>>]]
        /\ UNCHANGED generatedFiles
  /\ UNCHANGED <<lastCall, skipWarnings>>
  /\ UNCHANGED <<envVars, currentPlan, ctxPlan, attempt, pc, queue, content, invoked, genLog,
                 commits, localFiles, reviewed, verification, reviewCalls, reviewReply,
                 verdicts, phaseRuns, replanCalls, deployCalls, result>>

AllSettled == \A p \in DOMAIN fetchRes : fetchRes[p].st # "pending"

\* the frame of the steps after the sync
runVars == <<queue, generatedFiles, content, invoked, skipWarnings, genLog, commits,
             fetchRes, localFiles, phaseRuns>>

\* variant of ReviewOn that decides on the deployment by the caller-supplied
\* plan
ReviewOnInitialPlan(texts) ==
  /\ rev = 1
  /\ pc = "sync" /\ AllSettled
  /\ reviewCalls' = reviewCalls + 1
  /\ \E o \in Outcomes(texts) :
     \E v \in { verifyDeployment(rev, ctxPlan, generatedFiles, o[1], o[2]) } :
     \E response \in { callLLMWithFallback(o[1], o[2]) } :
          IF v.threw
          THEN /\ pc' = "thrown"
               /\ result' = Thrown("TypeError", <<>>)
               /\ UNCHANGED <<reviewed, verification, verdicts, reviewReply, lastCall>>
          ELSE /\ v.result.success = (attempt = reviewerApprovesAt)
               /\ lastCall' = CallRecord("review", reviewRequest(v.snapshot), o, response)
               /\ reviewReply' = [threw |-> response.threw, text |-> response.text]
               /\ reviewed' = v.snapshot
               /\ verification' = v.result
               /\ verdicts' = Append(verdicts, v.result.success)
               /\ IF v.result.success
                  THEN IF isStaticSite(initialPlan)
                       THEN pc' = "deploy" /\ UNCHANGED result
                       ELSE /\ pc' = "returned"
                            /\ result' = Success("", v.result, attempt)
                  ELSE IF canRetry(attempt)
                       THEN pc' = "replan" /\ UNCHANGED result
                       ELSE /\ pc' = "thrown"
                            /\ result' = Thrown("Deployment failed after 3 attempts",
                                                v.result.errors)
  /\ UNCHANGED <<envVars, currentPlan, ctxPlan, attempt, runVars, replanCalls, deployCalls>>

\* first definition: verifyDeployment once every fetch has settled, then the
\* branch on the verdict up to the next call that is awaited
ReviewOn(texts) ==
  /\ rev = 1
  /\ pc = "sync" /\ AllSettled
  /\ reviewCalls' = reviewCalls + 1
  /\ \E o \in Outcomes(texts) :
     \E v \in { verifyDeployment(rev, ctxPlan, generatedFiles, o[1], o[2]) } :
     \E response \in { callLLMWithFallback(o[1], o[2]) } :
          IF v.threw
          THEN /\ pc' = "thrown"
               /\ result' = Thrown("TypeError", <<>>)
               /\ UNCHANGED <<reviewed, verification, verdicts, reviewReply, lastCall>>
          ELSE /\ v.result.success = (attempt = reviewerApprovesAt)
               /\ lastCall' = CallRecord("review", reviewRequest(v.snapshot), o, response)
               /\ reviewReply' = [threw |-> response.threw, text |-> response.text]
               /\ reviewed' = v.snapshot
               /\ verification' = v.result
               /\ verdicts' = Append(verdicts, v.result.success)
               /\ IF v.result.success
                  THEN IF isStaticSite(currentPlan)
                       THEN pc' = "deploy" /\ UNCHANGED result
                       ELSE /\ pc' = "returned"
                            /\ result' = Success("", v.result, attempt)
                  ELSE IF canRetry(attempt)
                       THEN pc' = "replan" /\ UNCHANGED result
                       ELSE /\ pc' = "thrown"
                            /\ result' = Thrown("Deployment failed after 3 attempts",
                                                v.result.errors)
  /\ UNCHANGED <<envVars, currentPlan, ctxPlan, attempt, runVars, replanCalls, deployCalls>>

Review == ReviewOn(ReviewTexts)

ReviewDisabled == VerificationResult(TRUE, <<>>, "Review disabled")

\* second definition: "Review skipped - auto-approved"
AutoApprove ==
  /\ rev = 2
  /\ pc = "sync" /\ AllSettled
  /\ IF isStaticSite(initialPlan)
     THEN pc' = "deploy" /\ UNCHANGED result
     ELSE /\ pc' = "returned"
          /\ result' = Success("", ReviewDisabled, 1)
  /\ UNCHANGED lastCall
  /\ UNCHANGED <<envVars, currentPlan, ctxPlan, attempt, runVars, reviewed, verification,
                 reviewCalls, reviewReply, verdicts, replanCalls, deployCalls>>

\* variant of Deploy that passes over an error of enableAndDeployPages and
\* returns the approved attempt without a URL
DeploySwallowingError ==
  /\ pc = "deploy"
  /\ deployCalls' = deployCalls + 1
  /\ \/ /\ pc' = "returned"
        /\ result' = IF rev = 1 THEN Success(DeployedUrl, verification, attempt)
                     ELSE Success(DeployedUrl, ReviewDisabled, 1)
     \/ /\ pc' = "returned"
        /\ result' = IF rev = 1 THEN Success("", verification, attempt)
                     ELSE Success("", ReviewDisabled, 1)
  /\ UNCHANGED lastCall
  /\ UNCHANGED <<envVars, currentPlan, ctxPlan, attempt, runVars, reviewed, verification,
                 reviewCalls, reviewReply, verdicts, replanCalls>>

\* githubService.enableAndDeployPages returns a URL or throws
Deploy ==
  /\ pc = "deploy"
  /\ deployCalls' = deployCalls + 1
  /\ \/ /\ pc' = "returned"
        /\ result' = IF rev = 1 THEN Success(DeployedUrl, verification, attempt)
                     ELSE Success(DeployedUrl, ReviewDisabled, 1)
     \/ /\ pc' = "thrown"
        /\ result' = Thrown("deploy", <<>>)
  /\ UNCHANGED lastCall
  /\ UNCHANGED <<envVars, currentPlan, ctxPlan, attempt, runVars, reviewed, verification,
                 reviewCalls, reviewReply, verdicts, replanCalls>>

\* variant of ReplanOn that keeps the current plan and goes on to the next
\* attempt when replanWithFeedback throws
ReplanOnKeepingPlan(texts) ==
  /\ pc = "replan"
  /\ replanCalls' = replanCalls + 1
  /\ \E o \in Outcomes(texts) :
     \E n \in { replanWithFeedback(rev, o[1], o[2]) } :
          /\ lastCall' = CallRecord("replan",
                                    replanRequest(replanPrompt(currentPlan,
                                      feedbackOf(verification.reviewReason))),
                                    o, callLLMWithFallback(o[1], o[2]))
          /\ IF n.threw
             THEN /\ attempt' = attempt + 1
                  /\ pc' = "loop"
                  /\ UNCHANGED <<currentPlan, result>>
             ELSE /\ currentPlan' = n.plan
                  /\ attempt' = attempt + 1
                  /\ pc' = "loop"
                  /\ UNCHANGED result
  /\ UNCHANGED <<envVars, ctxPlan, runVars, reviewed, verification, reviewCalls,
                 reviewReply, verdicts, deployCalls>>

\* variant of ReplanOn that hands the caller-supplied plan to the Replanner
ReplanOnFromInitialPlan(texts) ==
  /\ pc = "replan"
  /\ replanCalls' = replanCalls + 1
  /\ \E o \in Outcomes(texts) :
     \E n \in { replanWithFeedback(rev, o[1], o[2]) } :
          /\ lastCall' = CallRecord("replan",
                                    replanRequest(replanPrompt(initialPlan,
                                      feedbackOf(verification.reviewReason))),
                                    o, callLLMWithFallback(o[1], o[2]))
          /\ IF n.threw
             THEN /\ pc' = "thrown"
                  /\ result' = Thrown(n.error, <<>>)
                  /\ UNCHANGED <<currentPlan, attempt>>
             ELSE /\ currentPlan' = n.plan
                  /\ attempt' = attempt + 1
                  /\ pc' = "loop"
                  /\ UNCHANGED result
  /\ UNCHANGED <<envVars, ctxPlan, runVars, reviewed, verification, reviewCalls,
                 reviewReply, verdicts, deployCalls>>

\* replanWithFeedback(mvp, currentPlan, reviewReason || "Unknown issue", log),
\* then attempt++
ReplanOn(texts) ==
  /\ pc = "replan"
  /\ replanCalls' = replanCalls + 1
  /\ \E o \in Outcomes(texts) :
     \E n \in { replanWithFeedback(rev, o[1], o[2]) } :
          /\ lastCall' = CallRecord("replan",
                                    replanRequest(replanPrompt(currentPlan,
                                      feedbackOf(verification.reviewReason))),
                                    o, callLLMWithFallback(o[1], o[2]))
          /\ IF n.threw
             THEN /\ pc' = "thrown"
                  /\ result' = Thrown(n.error, <<>>)
                  /\ UNCHANGED <<currentPlan, attempt>>
             ELSE /\ currentPlan' = n.plan
                  /\ attempt' = attempt + 1
                  /\ pc' = "loop"
                  /\ UNCHANGED result
  /\ UNCHANGED <<envVars, ctxPlan, runVars, reviewed, verification, reviewCalls,
                 reviewReply, verdicts, deployCalls>>

Replan == ReplanOn(ReplanTexts)

Next ==
  \/ StartAttempt
  \/ SkipTask
  \/ GenerateTask
  \/ CommitTask
  \/ StartSync
  \/ \E p \in DOMAIN fetchRes : Fetch(p)
  \/ Review
  \/ AutoApprove
  \/ Deploy
  \/ Replan

Spec == Init /\ [][Next]_vars

\* the first definition alone (lines 1-386)
InitLoop == Init /\ rev = 1

NextLoop ==
  \/ StartAttempt
  \/ SkipTask
  \/ GenerateTask
  \/ CommitTask
  \/ StartSync
  \/ \E p \in DOMAIN fetchRes : Fetch(p)
  \/ Review
  \/ Deploy
  \/ Replan

SpecLoop == InitLoop /\ [][NextLoop]_vars

\* the first definition with fewer different replies: generated content
\* "x", an approval or a rejection, PlanAB, PlanMixed or text that is not JSON
LiveGenTexts == { <<"x">> }

LiveReviewTexts == { <<"T">>, <<"F">> }

LiveReplanTexts == { <<"1">>, <<"3">>, <<"x">> }

InitLive == InitLoop /\ initialPlan = PlanAB

NextLive ==
  \/ StartAttempt
  \/ SkipTask
  \/ GenerateTaskOn(LiveGenTexts)
  \/ CommitTask
  \/ StartSync
  \/ \E p \in DOMAIN fetchRes : Fetch(p)
  \/ ReviewOn(LiveReviewTexts)
  \/ Deploy
  \/ ReplanOn(LiveReplanTexts)

\* every awaited call (generation, commit, fetch, review, deploy, replan)
\* eventually resolves or rejects, so the run always takes its next step
SpecLive == InitLive /\ [][NextLive]_vars /\ WF_vars(NextLive)

\* ---------------------------------------------------- the sanitizer alone
\* what a response can be made of: a fence marker, a single backtick, a line
\* break, a blank and an ordinary character
Pieces == { FENCE, <<BT>>, <<NL>>, <<" ">>, <<"x">> }

RECURSIVE TextsOf(_)
TextsOf(n) ==
  IF n = 0 THEN { <<>> }
  ELSE LET shorter == TextsOf(n - 1)
       IN shorter \cup { t \o p : t \in shorter, p \in Pieces }

\* the fenced JSON response of the generation prompt contract
FencedExample == FencedText(<<"j">>, <<"x">>)

RawTexts == TextsOf(MaxPieces) \cup { FencedExample }

\* executeOrchestrator is not running
NotRunning ==
  /\ reviewerApprovesAt = 1
  /\ initialPlan = PlanAB
  /\ currentPlan = PlanAB
  /\ ctxPlan = PlanAB
  /\ attempt = 1
  /\ pc = "idle"
  /\ queue = <<>>
  /\ generatedFiles = <<>>
  /\ content = <<>>
  /\ invoked = <<>>
  /\ skipWarnings = <<>>
  /\ genLog = <<>>
  /\ commits = <<>>
  /\ fetchRes = NoFetches
  /\ localFiles = <<>>
  /\ reviewed = NoSnapshot
  /\ verification = NoVerification
  /\ reviewCalls = 0
  /\ reviewReply = NoReply
  /\ verdicts = <<>>
  /\ phaseRuns = 0
  /\ replanCalls = 0
  /\ deployCalls = 0
  /\ result = NoResult
  /\ lastCall = NoCall

notRunningVars ==
  <<reviewerApprovesAt, initialPlan, currentPlan, ctxPlan, attempt, pc, queue,
    generatedFiles, content, invoked, genLog, commits, fetchRes, localFiles,
    reviewed, verification, reviewCalls, reviewReply, verdicts, phaseRuns,
    replanCalls, deployCalls, result, lastCall, skipWarnings>>

\* the sanitizer of definition rev is applied to a response text and nothing
\* else happens
InitSanitizer ==
  /\ rev \in {1, 2}
  /\ raw \in RawTexts
  /\ cleaned = <<>>
  /\ req = NoRequest
  /\ llm = NoLLM
  /\ gh = NoGH
  /\ NotRunning

sanitizerFrame == <<notRunningVars, rev, raw, req, llm, gh>>

\* this.cleanContent(response.text) / cleanCodeFence(response.text)
SanitizeResponse ==
  /\ pc = "idle" /\ cleaned = <<>>
  /\ cleaned' = << Sanitize(rev, raw) >>
  /\ UNCHANGED sanitizerFrame

\* the sanitizer applied to what it returned
SanitizeAgain ==
  /\ pc = "idle" /\ Len(cleaned) = 1
  /\ cleaned' = Append(cleaned, Sanitize(rev, cleaned[1]))
  /\ UNCHANGED sanitizerFrame

NextSanitizer == SanitizeResponse \/ SanitizeAgain

SpecSanitizer == InitSanitizer /\ [][NextSanitizer]_vars

\* ----------------------------------------------------- the Reviewer alone
\* replies to the review request: every verdict of the JSON model bare,
\* padded with white space, in a labelled and in an unlabelled code fence,
\* a plan, text that is not JSON, and the empty text
VerdictTexts ==
  UNION { { <<c>>, <<" ", c, NL>>, FencedText(<<"j">>, <<c>>), FencedText(<<>>, <<c>>) } :
          c \in VerdictChars }
    \cup { <<"1">>, <<"x">>, <<>> }

\* verifyDeployment of definition rev is called once on the files of a
\* finished phase run (none here) and nothing else happens
InitReviewer ==
  /\ rev \in {1, 2}
  /\ raw = <<>>
  /\ cleaned = <<>>
  /\ req = NoRequest
  /\ llm = NoLLM
  /\ gh = NoGH
  /\ NotRunning

reviewerFrame ==
  <<rev, reviewerApprovesAt, initialPlan, currentPlan, ctxPlan, attempt, pc, queue,
    generatedFiles, content, invoked, skipWarnings, genLog, commits, fetchRes,
    localFiles, phaseRuns, replanCalls, deployCalls, result, raw, cleaned, req, llm, gh>>

\* orchestrator.verifyDeployment(ctx) with any reply of the two providers
VerifyDeployment ==
  /\ pc = "idle" /\ reviewCalls = 0
  /\ reviewCalls' = 1
  /\ \E o \in Outcomes(VerdictTexts) :
     \E v \in { verifyDeployment(rev, ctxPlan, generatedFiles, o[1], o[2]) } :
     \E response \in { callLLMWithFallback(o[1], o[2]) } :
          /\ ~v.threw
          /\ lastCall' = CallRecord("review", reviewRequest(v.snapshot), o, response)
          /\ reviewReply' = [threw |-> response.threw, text |-> response.text]
          /\ reviewed' = v.snapshot
          /\ verification' = v.result
          /\ verdicts' = Append(verdicts, v.result.success)
  /\ UNCHANGED reviewerFrame

NextReviewer == VerifyDeployment

SpecReviewer == InitReviewer /\ [][NextReviewer]_vars

\* ------------------------------------- callLLMWithFallback and the clients
Providers == { "gemini", "aipipe" }

\* CLIENT_MAP[config.llmProvider]
PRIMARY_CLIENT(llmProvider) == llmProvider

\* config.llmProvider === "gemini" ? aipipe : gemini
FALLBACK_CLIENT(llmProvider) == IF llmProvider = "gemini" THEN "aipipe" ELSE "gemini"

\* texts a provider answers with
ClientTexts == { <<"x">>, <<"y">> }

\* bodies of an aipipe response: "J" followed by c stands for a JSON document
\* whose choices[0].message.content is c, "J" alone for one without choices;
\* the others are empty, blank or not JSON
AipipeBodies == { <<"J">> \o t : t \in ClientTexts } \cup { <<"J">>, <<>>, <<" ">>, <<"x">> }

\* one client.generate: the awaited promise (stage), the HTTP request under
\* it, the timer of the timeout, whether the timeout has elapsed since the
\* call began, whether it had when the call resolved, response.ok, and the
\* responses that arrived after the call had settled
ClientCall(client) ==
  [client |-> client, stage |-> "waiting", request |-> "pending", timer |-> "armed",
   exceeded |-> FALSE, overran |-> FALSE, ok |-> TRUE, error |-> "", text |-> <<>>,
   late |-> <<>>]

\* callLLMWithFallback has called primaryFn
LLMCall(llmProvider) ==
  [primary |-> PRIMARY_CLIENT(llmProvider), fallback |-> FALLBACK_CLIENT(llmProvider),
   pc |-> "primary", calls |-> << ClientCall(PRIMARY_CLIENT(llmProvider)) >>,
   threw |-> FALSE, text |-> <<>>]

InitClient ==
  /\ llm \in { LLMCall(p) : p \in Providers }
  /\ gh = NoGH
  /\ rev = 1
  /\ raw = <<>>
  /\ cleaned = <<>>
  /\ req = NoRequest
  /\ NotRunning

clientFrame == <<notRunningVars, rev, raw, cleaned, req, gh>>

Resolved(c, t) == [c EXCEPT !.stage = "resolved", !.text = t, !.overran = c.exceeded]

Rejected(c, e) == [c EXCEPT !.stage = "rejected", !.error = e]

\* call i settles as c and callLLMWithFallback continues: it returns what
\* the call resolved with, calls fallbackFn when primaryFn rejected, and
\* rejects when fallbackFn rejected
Settled(i, c) ==
  LET l == [llm EXCEPT !.calls[i] = c]
  IN IF c.stage = "resolved"
     THEN [l EXCEPT !.pc = "returned", !.text = c.text]
     ELSE IF llm.pc = "primary"
     THEN [l EXCEPT !.pc = "fallback", !.calls = Append(l.calls, ClientCall(llm.fallback))]
     ELSE [l EXCEPT !.pc = "thrown", !.threw = TRUE]

\* GeminiClient.generate: generateContent resolves (text: response.text ?? "")
\* or rejects; the race takes it unless the timer has rejected it already
GeminiResponds(i) ==
  /\ i \in DOMAIN llm.calls
  /\ llm.calls[i].client = "gemini" /\ llm.calls[i].request = "pending"
  /\ \E t \in ClientTexts \cup { <<>> } : \E rejects \in BOOLEAN :
       LET c == [llm.calls[i] EXCEPT !.request = "done"]
       IN llm' = IF c.stage = "waiting"
                 THEN Settled(i, IF rejects THEN Rejected(c, "transport") ELSE Resolved(c, t))
                 ELSE [llm EXCEPT !.calls[i] = [c EXCEPT !.late = Append(@, t)]]
  /\ UNCHANGED clientFrame

\* the timeout elapses on call i: an armed timer runs its callback, which
\* rejects the race of executeWithTimeout (without effect once the race is
\* settled) or aborts the fetch of AipipeClient.generate, whose catch block
\* throws "Request timeout"; a cleared timer does nothing
TimeoutElapses(i) ==
  /\ i \in DOMAIN llm.calls
  /\ ~llm.calls[i].exceeded
  /\ LET c == [llm.calls[i] EXCEPT !.exceeded = TRUE]
         fired == [c EXCEPT !.timer = "fired"]
     IN llm' = IF c.timer # "armed" THEN [llm EXCEPT !.calls[i] = c]
               ELSE IF c.stage # "waiting" THEN [llm EXCEPT !.calls[i] = fired]
               ELSE IF c.client = "gemini" THEN Settled(i, Rejected(fired, "timeout"))
               ELSE Settled(i, Rejected([fired EXCEPT !.request = "done"], "timeout"))
  /\ UNCHANGED clientFrame

\* AipipeClient.generate: fetch resolves with the response and
\* clearTimeout(timeoutId) runs, or fetch rejects and the catch block clears
\* the timer and rethrows
AipipeHeaders(i) ==
  /\ i \in DOMAIN llm.calls
  /\ llm.calls[i].client = "aipipe" /\ llm.calls[i].stage = "waiting"
  /\ LET c == [llm.calls[i] EXCEPT !.timer = "cleared"]
     IN \/ \E ok \in BOOLEAN :
             llm' = [llm EXCEPT !.calls[i] = [c EXCEPT !.stage = "body", !.ok = ok]]
        \/ llm' = Settled(i, Rejected([c EXCEPT !.request = "done"], "transport"))
  /\ UNCHANGED clientFrame

\* JSON.parse(text) and mapToGenerateResponse of AipipeClient
aipipeText(body) ==
  LET t == trim(body)
  IN IF t # <<>> /\ t[1] = "J" THEN [ok |-> TRUE, text |-> Tail(t)]
     ELSE [ok |-> FALSE, text |-> <<>>]

\* AipipeClient.generate after the headers: response.text() resolves or
\* rejects; "API error" when !response.ok, "Empty response from API" on an
\* empty or blank body, a SyntaxError from JSON.parse, otherwise the content
AipipeBody(i) ==
  /\ i \in DOMAIN llm.calls
  /\ llm.calls[i].client = "aipipe" /\ llm.calls[i].stage = "body"
  /\ LET c == [llm.calls[i] EXCEPT !.request = "done"]
     IN \/ \E body \in AipipeBodies :
             llm' = Settled(i,
                      IF ~c.ok THEN Rejected(c, "API error")
                      ELSE IF trim(body) = <<>> THEN Rejected(c, "Empty response from API")
                      ELSE IF ~aipipeText(body).ok THEN Rejected(c, "SyntaxError")
                      ELSE Resolved(c, aipipeText(body).text))
        \/ llm' = Settled(i, Rejected(c, "transport"))
  /\ UNCHANGED clientFrame

NextClient ==
  \/ \E i \in 1..2 : GeminiResponds(i)
  \/ \E i \in 1..2 : TimeoutElapses(i)
  \/ \E i \in 1..2 : AipipeHeaders(i)
  \/ \E i \in 1..2 : AipipeBody(i)

SpecClient == InitClient /\ [][NextClient]_vars

\* ------------------------------------------- POST /make and processRequest
\* a request body without the secret field
NoSecret == << "no secret" >>

\* String(data.secret): a string is itself, undefined is "undefined"
StringOf(secret) ==
  IF secret = NoSecret THEN <<"u", "n", "d", "e", "f", "i", "n", "e", "d">> ELSE secret

\* process.env.SECRET_KEY?.trim(): unset or blank, "k", "undefined"
SecretKeys == { <<>>, <<"k">>, StringOf(NoSecret) }

Secrets == { <<"k">>, <<" ", "k", NL>>, <<"b">>, NoSecret }

EvaluationUrls == { "https://eval.example/notify", "" }

\* what fs.promises.appendFile can reject with
LogErrors == { "ENOSPC", "EACCES" }

\* one request was received and executeOrchestrator is not running
InitRequest ==
  /\ req \in { Request(k, sec, u, "received") :
                 k \in SecretKeys, sec \in Secrets, u \in EvaluationUrls }
  /\ rev = 1
  /\ raw = <<>>
  /\ cleaned = <<>>
  /\ llm = NoLLM
  /\ gh = NoGH
  /\ NotRunning

requestFrame == <<notRunningVars, rev, raw, cleaned, llm, gh>>

\* the awaited logDetails calls of the try block, in order, and where each
\* leads when it resolves
LogTitle(at) ==
  CASE at = "log46"  -> "Request Data"
    [] at = "log50"  -> "Project Name"
    [] at = "log138" -> "MVP"
    [] OTHER         -> "Plan"

AfterLog(at) ==
  CASE at = "log46"  -> "log50"
    [] at = "log50"  -> "log138"
    [] at = "log138" -> "log433"
    [] OTHER         -> "returned"

\* variant of PostMake without the comparison of the secrets
PostMakeUnchecked ==
  /\ req.pc = "received"
  /\ req' = IF req.SECRET_KEY = <<>>
            THEN [req EXCEPT !.status = 500, !.pc = "replied"]
            ELSE [req EXCEPT !.status = 202, !.pc = "log46"]
  /\ UNCHANGED requestFrame

\* the handler of POST /make: 500 without SECRET_KEY, 401 on a wrong secret,
\* otherwise 202 and processRequest is started (not awaited)
PostMake ==
  /\ req.pc = "received"
  /\ req' = IF req.SECRET_KEY = <<>>
            THEN [req EXCEPT !.status = 500, !.pc = "replied"]
            ELSE IF trim(StringOf(req.secret)) # req.SECRET_KEY
            THEN [req EXCEPT !.status = 401, !.pc = "replied"]
            ELSE [req EXCEPT !.status = 202, !.pc = "log46"]
  /\ UNCHANGED requestFrame

\* one awaited logDetails of the try block resolves or rejects; after the
\* last one processRequest returns (line 434)
LogDetails ==
  /\ req.pc \in {"log46", "log50", "log138", "log433"}
  /\ \/ req' = [req EXCEPT !.logged = Append(@, LogTitle(req.pc)),
                            !.pc = AfterLog(req.pc)]
     \/ \E e \in LogErrors : req' = [req EXCEPT !.error = e, !.pc = "catch"]
  /\ UNCHANGED requestFrame

\* the catch block up to its sendCallback: logDetails("Processing Error")
\* resolves, or rejects and processRequest rejects with that error
CatchLogDetails ==
  /\ req.pc = "catch"
  /\ \/ req' = [req EXCEPT !.logged = Append(@, "Processing Error"),
                            !.pc = "callback"]
     \/ \E e \in LogErrors : req' = [req EXCEPT !.rejected = e, !.pc = "escaped"]
  /\ UNCHANGED requestFrame

\* variant of sendCallback that rethrows the failure of the fetch
sendCallbackRethrowing ==
  /\ req.pc = "callback"
  /\ \E delivered \in (IF req.evaluation_url = "" THEN {FALSE} ELSE BOOLEAN) :
       req' = [req EXCEPT
                 !.callbacks = Append(@, [url |-> req.evaluation_url,
                                          success |-> FALSE,
                                          error |-> req.error,
                                          delivered |-> delivered]),
                 !.rejected = IF delivered THEN @ ELSE "fetch failed",
                 !.pc = IF delivered THEN "returned" ELSE "escaped"]
  /\ UNCHANGED requestFrame

\* sendCallback of the catch block: the POST is attempted (fetch rejects on
\* an unusable URL or a failed transfer) and a failure of the fetch is logged
\* and swallowed
sendCallback ==
  /\ req.pc = "callback"
  /\ \E delivered \in (IF req.evaluation_url = "" THEN {FALSE} ELSE BOOLEAN) :
       req' = [req EXCEPT
                 !.callbacks = Append(@, [url |-> req.evaluation_url,
                                          success |-> FALSE,
                                          error |-> req.error,
                                          delivered |-> delivered]),
                 !.pc = "returned"]
  /\ UNCHANGED requestFrame

NextRequest == PostMake \/ LogDetails \/ CatchLogDetails \/ sendCallback

SpecRequest == InitRequest /\ [][NextRequest]_vars

\* ------------------------------------------------------------ GitHubService
\* A response body is a sequence of tokens; the text of a JSON object is its
\* member names and values in turn.
StatusText(statusCode) ==
  CASE statusCode = 200 -> "200"
    [] statusCode = 201 -> "201"
    [] statusCode = 204 -> "204"
    [] statusCode = 401 -> "401"
    [] statusCode = 404 -> "404"
    [] statusCode = 409 -> "409"
    [] statusCode = 422 -> "422"
    [] OTHER            -> "500"

Response(statusCode, responseData) ==
  [statusCode |-> statusCode, responseData |-> responseData]

\* JSON.parse(responseData) of an object: the last of equal member names wins,
\* a text that breaks off inside a member is a SyntaxError
parseResponseData(responseData) ==
  LET n    == Len(responseData) \div 2
      keys == { responseData[2 * i - 1] : i \in 1..n }
      last(k) == CHOOSE i \in 1..n :
                   /\ responseData[2 * i - 1] = k
                   /\ \A j \in (i + 1)..n : responseData[2 * j - 1] # k
  IN IF Len(responseData) % 2 = 1
     THEN [ok |-> FALSE, value |-> EmptyObject]
     ELSE [ok |-> TRUE, value |-> [k \in keys |-> responseData[2 * last(k)]]]

\* how a promise of HttpClient.request settled
Settlement(ok, undefined, value, message) ==
  [ok |-> ok, undefined |-> undefined, value |-> value, message |-> message]

\* HttpClient.request once the response ended: a 2xx resolves, with undefined
\* for a 204 or an empty 200 and the parsed body otherwise; anything else
\* rejects with Error("HTTP <status>: <body>")
request(response) ==
  IF response.statusCode >= 200 /\ response.statusCode < 300
  THEN IF \/ response.statusCode = 204
          \/ response.statusCode = 200 /\ response.responseData = <<>>
       THEN Settlement(TRUE, TRUE, EmptyObject, <<>>)
       ELSE IF parseResponseData(response.responseData).ok
       THEN Settlement(TRUE, FALSE, parseResponseData(response.responseData).value, <<>>)
       ELSE Settlement(FALSE, FALSE, EmptyObject, <<"SyntaxError">>)
  ELSE Settlement(FALSE, FALSE, EmptyObject,
                  <<"HTTP", StatusText(response.statusCode), ":">> \o response.responseData)

\* request.on('error', reject): the connection failed
TransportErrors == { Settlement(FALSE, FALSE, EmptyObject, <<"ECONNRESET">>) }

\* object.member, "undefined" when the object has no such member
Member(object, name) == IF name \in DOMAIN object THEN object[name] ELSE "undefined"

Falsy(value) == value \in {"undefined", ""}

githubFrame == <<notRunningVars, rev, raw, cleaned, req, llm>>

\* ------------------------------------------- GitHubService: cached identity
\* what GET /user can answer: the profile, the profile after it was edited,
\* an empty 200, bad credentials
UserResponses ==
  { Response(200, <<"login", "octocat", "name", "A">>),
    Response(200, <<"login", "octocat", "name", "B">>),
    Response(200, <<>>),
    Response(401, <<"Bad", "credentials">>) }

\* a caller of getAuthenticatedUser: before the call, suspended in its await,
\* or settled with what it returned or threw
Caller ==
  [pc |-> "start", requested |-> FALSE, returned |-> NullUser, threw |-> <<>>]

InitIdentity ==
  /\ gh = [cachedUser |-> NullUser, callers |-> [i \in 1..MaxCallers |-> Caller]]
  /\ rev = 1
  /\ raw = <<>>
  /\ cleaned = <<>>
  /\ req = NoRequest
  /\ llm = NoLLM
  /\ NotRunning

\* getAuthenticatedUser up to its await: the cached user is returned, or the
\* request to /user is issued
getAuthenticatedUser(i) ==
  /\ i \in DOMAIN gh.callers
  /\ gh.callers[i].pc = "start"
  /\ gh' = IF gh.cachedUser.truthy
           THEN [gh EXCEPT !.callers[i].pc = "returned",
                           !.callers[i].returned = gh.cachedUser]
           ELSE [gh EXCEPT !.callers[i].pc = "awaiting",
                           !.callers[i].requested = TRUE]
  /\ UNCHANGED githubFrame

\* getAuthenticatedUser after its await: the user is stored and returned, or
\* the rejection of the request leaves the call
UserRequestSettles(i) ==
  /\ i \in DOMAIN gh.callers
  /\ gh.callers[i].pc = "awaiting"
  /\ \E o \in { request(r) : r \in UserResponses } \cup TransportErrors :
       LET user == [truthy |-> ~o.undefined, value |-> o.value]
       IN gh' = IF o.ok
                THEN [gh EXCEPT !.cachedUser = user,
                                !.callers[i].pc = "returned",
                                !.callers[i].returned = user]
                ELSE [gh EXCEPT !.callers[i].pc = "threw",
                                !.callers[i].threw = o.message]
  /\ UNCHANGED githubFrame

NextIdentity ==
  \/ \E i \in 1..MaxCallers : getAuthenticatedUser(i)
  \/ \E i \in 1..MaxCallers : UserRequestSettles(i)

SpecIdentity == InitIdentity /\ [][NextIdentity]_vars

\* --------------------------------------- GitHubService: commitMultipleFiles
\* The head of branch main is the number of commits on it.
\* a call of commitMultipleFiles: where it is, the head it read, what its
\* mutation carried, whether the remote applied it, how the call settled
Writer(fileOperations) ==
  [pc |-> "start", fileOperations |-> fileOperations, branchOid |-> 0,
   expectedHeadOid |-> 0, applied |-> FALSE, returned |-> EmptyObject, threw |-> <<>>]

\* the fileOperations a call is made with
FileOperationLists ==
  { << [operation |-> "create", path |-> "a.js", content |-> "v1"] >>,
    << [operation |-> "update", path |-> "a.js", content |-> "v2"],
       [operation |-> "delete", path |-> "b.js", content |-> ""] >> }

isAddition(op) == op.operation \in {"create", "update"}

isDeletion(op) == op.operation = "delete"

RECURSIVE additionsOf(_)
additionsOf(ops) ==
  IF ops = <<>> THEN <<>>
  ELSE << [path |-> Head(ops).path, contents |-> <<"base64", Head(ops).content>>] >>
         \o additionsOf(Tail(ops))

RECURSIVE deletionsOf(_)
deletionsOf(ops) ==
  IF ops = <<>> THEN <<>>
  ELSE << [path |-> Head(ops).path] >> \o deletionsOf(Tail(ops))

\* const fileChanges = { additions: ..., deletions: ... }
fileChanges(fileOperations) ==
  [additions |-> additionsOf(SelectSeq(fileOperations, isAddition)),
   deletions |-> deletionsOf(SelectSeq(fileOperations, isDeletion))]

InitCommit ==
  /\ gh \in { [branch |-> <<>>, writers |-> ws] :
               ws \in [1..MaxWriters -> { Writer(ops) : ops \in FileOperationLists }] }
  /\ rev = 1
  /\ raw = <<>>
  /\ cleaned = <<>>
  /\ req = NoRequest
  /\ llm = NoLLM
  /\ NotRunning

\* what the remote answers to a read of the repository or of the branch when
\* it does not succeed
ReadFailures == { request(Response(404, <<"Not", "Found">>)) } \cup TransportErrors

\* const repositoryId = await this.getRepositoryNodeId(owner, repo)
getRepositoryNodeId(w) ==
  /\ w \in DOMAIN gh.writers
  /\ gh.writers[w].pc = "start"
  /\ \/ gh' = [gh EXCEPT !.writers[w].pc = "readHead"]
     \/ \E o \in ReadFailures :
          gh' = [gh EXCEPT !.writers[w].pc = "threw", !.writers[w].threw = o.message]
  /\ UNCHANGED githubFrame

\* const branchOid = await this.getBranchOid(owner, repo): the head of main
\* at the time of the read
getBranchOid(w) ==
  /\ w \in DOMAIN gh.writers
  /\ gh.writers[w].pc = "readHead"
  /\ \/ gh' = [gh EXCEPT !.writers[w].pc = "commit",
                          !.writers[w].branchOid = Len(gh.branch)]
     \/ \E o \in ReadFailures :
          gh' = [gh EXCEPT !.writers[w].pc = "threw", !.writers[w].threw = o.message]
  /\ UNCHANGED githubFrame

\* what the GraphQL endpoint answers to createCommitOnBranch: the commit when
\* expectedHeadOid is the head; for a stale expectedHeadOid an errors member
\* in a 200 response, or a response that is not 2xx
CommitResponses(fresh) ==
  IF fresh
  THEN { Response(200, <<"data", "createCommitOnBranch">>) }
  ELSE { Response(200, <<"data", "null", "errors", "STALE_DATA">>),
         Response(409, <<"STALE_DATA">>) }

\* return this.httpClient.graphqlRequest(mutation, variables) with
\* expectedHeadOid: branchOid; the remote applies the commit only on its
\* head, and the call settles as the request does
commitMultipleFiles(w) ==
  /\ w \in DOMAIN gh.writers
  /\ gh.writers[w].pc = "commit"
  /\ LET expectedHeadOid == gh.writers[w].branchOid
         fresh == expectedHeadOid = Len(gh.branch)
     IN \/ \E o \in { request(r) : r \in CommitResponses(fresh) } :
             gh' = [gh EXCEPT
                      !.branch = IF fresh
                                 THEN Append(@, [writer |-> w, parent |-> expectedHeadOid,
                                                 fileChanges |->
                                                   fileChanges(gh.writers[w].fileOperations)])
                                 ELSE @,
                      !.writers[w].expectedHeadOid = expectedHeadOid,
                      !.writers[w].applied = fresh,
                      !.writers[w].pc = IF o.ok THEN "resolved" ELSE "threw",
                      !.writers[w].returned = o.value,
                      !.writers[w].threw = o.message]
        \/ \E o \in TransportErrors :
             gh' = [gh EXCEPT !.writers[w].expectedHeadOid = expectedHeadOid,
                              !.writers[w].pc = "threw",
                              !.writers[w].threw = o.message]
  /\ UNCHANGED githubFrame

NextCommit ==
  \/ \E w \in 1..MaxWriters : getRepositoryNodeId(w)
  \/ \E w \in 1..MaxWriters : getBranchOid(w)
  \/ \E w \in 1..MaxWriters : commitMultipleFiles(w)

SpecCommit == InitCommit /\ [][NextCommit]_vars

\* -------------------------------------- GitHubService: enableAndDeployPages
\* A URL is a sequence of tokens.
\* error.message.includes(text): the text occurs in the message
includes(message, text) == \E k \in DOMAIN message : message[k] = text

toLowerCase(name) ==
  CASE name = "Octo" -> "octo"
    [] name = "Site" -> "site"
    [] OTHER         -> name

\* `https://${username}.github.io/${repoName}/`
defaultPagesUrl(owner, repo) ==
  <<"https://", toLowerCase(owner), ".github.io/", toLowerCase(repo), "/">>

\* what POST /repos/{owner}/{repo}/pages can answer: the site is created,
\* 409 as Pages are already enabled, a validation error whose body quotes a
\* request id with 409 in it, not found
EnableResponses ==
  { Response(201, <<"status", "queued">>),
    Response(409, <<"GitHub", "Pages", "is", "already", "enabled">>),
    Response(422, <<"Validation", "Failed", "request", "409">>),
    Response(404, <<"Not", "Found">>) }

\* what GET /repos/{owner}/{repo}/pages can answer
PagesResponses ==
  { Response(200, <<"status", "built", "html_url", "https://octo.github.io/site/">>),
    Response(200, <<"status", "building", "html_url", "https://octo.github.io/site/">>),
    Response(200, <<"status", "built">>),
    Response(200, <<"status", "building">>),
    Response(200, <<>>),
    Response(404, <<"Not", "Found">>),
    Response(500, <<"upstream", "409">>) }

\* a TypeError: a member of undefined was read
TypeError == <<"TypeError", "Cannot", "read", "properties", "of", "undefined">>

\* one call of enableAndDeployPages: i is the loop counter, enabled how
\* enablePages settled, polled how the latest getPagesInfo settled, at which
\* await the error that reached the outer catch was raised
Deployment(owner, repo) ==
  [pc |-> "enable", owner |-> owner, repo |-> repo, i |-> 0, polls |-> 0,
   enabled |-> Settlement(FALSE, FALSE, EmptyObject, <<>>),
   polled |-> Settlement(FALSE, FALSE, EmptyObject, <<>>),
   caughtAt |-> "", url |-> <<>>, threw |-> <<>>]

InitPages ==
  /\ gh = Deployment("Octo", "Site")
  /\ rev = 1
  /\ raw = <<>>
  /\ cleaned = <<>>
  /\ req = NoRequest
  /\ llm = NoLLM
  /\ NotRunning

\* the outer catch block up to its await: a message with 409 in it leads to
\* the read of the existing site, any other error is thrown again
catchOf(deployment, message, at) ==
  IF includes(message, "409")
  THEN [deployment EXCEPT !.pc = "existing", !.caughtAt = at]
  ELSE [deployment EXCEPT !.pc = "threw", !.caughtAt = at, !.threw = message]

\* await this.enablePages(owner, repo, { branch, path })
enablePages ==
  /\ gh.pc = "enable"
  /\ \E o \in { request(r) : r \in EnableResponses } \cup TransportErrors :
       LET g == [gh EXCEPT !.enabled = o]
       IN gh' = IF o.ok THEN [g EXCEPT !.pc = "poll"] ELSE catchOf(g, o.message, "enable")
  /\ UNCHANGED githubFrame

\* one turn of the loop: the delay, then getPagesInfo; the URL is returned
\* when the status is "built" and a URL is there, a rejection and a
\* TypeError on an empty answer are caught and the loop goes on
PollPages ==
  /\ gh.pc = "poll"
  /\ gh.i < maxAttempts
  /\ \E o \in { request(r) : r \in PagesResponses } \cup TransportErrors :
       LET g == [gh EXCEPT !.polled = o, !.polls = @ + 1]
           built == /\ o.ok /\ ~o.undefined
                    /\ Member(o.value, "status") = "built"
                    /\ ~Falsy(Member(o.value, "html_url"))
       IN gh' = IF built
                THEN [g EXCEPT !.pc = "returned", !.url = << Member(o.value, "html_url") >>]
                ELSE [g EXCEPT !.i = @ + 1,
                               !.pc = IF gh.i + 1 < maxAttempts THEN "poll" ELSE "final"]
  /\ UNCHANGED githubFrame

\* after the loop: one more getPagesInfo, outside the inner try; its URL or
\* the default URL is returned, its failure reaches the outer catch
FinalRead ==
  /\ gh.pc = "final"
  /\ \E o \in { request(r) : r \in PagesResponses } \cup TransportErrors :
       LET g == [gh EXCEPT !.polled = o]
       IN gh' = IF ~o.ok THEN catchOf(g, o.message, "final")
                ELSE IF o.undefined THEN catchOf(g, TypeError, "final")
                ELSE [g EXCEPT !.pc = "returned",
                               !.url = IF Falsy(Member(o.value, "html_url"))
                                       THEN defaultPagesUrl(gh.owner, gh.repo)
                                       ELSE << Member(o.value, "html_url") >>]
  /\ UNCHANGED githubFrame

\* the 409 branch of the outer catch: getPagesInfo and return of its
\* html_url, whatever it is; a failure leaves the function
ExistingRead ==
  /\ gh.pc = "existing"
  /\ \E o \in { request(r) : r \in PagesResponses } \cup TransportErrors :
       LET g == [gh EXCEPT !.polled = o]
       IN gh' = IF ~o.ok THEN [g EXCEPT !.pc = "threw", !.threw = o.message]
                ELSE IF o.undefined THEN [g EXCEPT !.pc = "threw", !.threw = TypeError]
                ELSE [g EXCEPT !.pc = "returned", !.url = << Member(o.value, "html_url") >>]
  /\ UNCHANGED githubFrame

NextPages == enablePages \/ PollPages \/ FinalRead \/ ExistingRead

SpecPages == InitPages /\ [][NextPages]_vars

\* ------------------------------------------------------------------ claims
Terminal == pc \in {"returned", "thrown"}

FinalRejection == "Deployment failed after 3 attempts"

\* errors of the phase run, the review call and the replan call
FatalErrors == {"generation", "commit", "TypeError", "replan", "SyntaxError", "deploy"}

\* C1: with a Reviewer that rejects every attempt there are never more than
\* 3 phase runs and 3 reviews, a replan follows attempts 1 and 2 only, and a
\* run without fatal error ends by throwing on the third rejection, after
\* exactly 3 attempts and exactly 2 replans
C1_AlwaysRejectedThrowsAfterThree ==
  reviewerApprovesAt > MAX_ATTEMPTS =>
    /\ attempt \in 1..MAX_ATTEMPTS
    /\ phaseRuns <= MAX_ATTEMPTS /\ reviewCalls <= MAX_ATTEMPTS
    /\ replanCalls <= MAX_ATTEMPTS - 1
    /\ pc = "replan" => attempt < MAX_ATTEMPTS /\ replanCalls = attempt - 1
    /\ result.kind # "success"
    /\ (Terminal /\ result.error \notin FatalErrors) =>
         /\ result.error = FinalRejection
         /\ phaseRuns = 3 /\ reviewCalls = 3 /\ replanCalls = 2
         /\ verdicts = <<FALSE, FALSE, FALSE>>
         /\ result.detail = verification.errors

C1_Witness ==
  /\ reviewerApprovesAt > MAX_ATTEMPTS
  /\ pc = "thrown" /\ result.error = FinalRejection
  /\ replanCalls = 2 /\ reviewCalls = 3

\* C2: when the Reviewer approves first at attempt k <= 3 and the run
\* returns, it returns success with attempts = k after exactly k - 1 replans
C2_ApprovalAtKReturnsK ==
  (pc = "returned" /\ reviewerApprovesAt <= MAX_ATTEMPTS) =>
    /\ result.kind = "success"
    /\ result.attempts = reviewerApprovesAt
    /\ replanCalls = reviewerApprovesAt - 1

\* C3: a success result is returned only after the Reviewer was invoked on
\* the files of the current attempt and approved them
C3_SuccessOnlyAfterApproval ==
  result.kind = "success" =>
    /\ reviewCalls >= 1
    /\ reviewed = buildRepoSnapshot(generatedFiles)
    /\ verification.success
    /\ result.verification = verification
    /\ verdicts # <<>> /\ verdicts[Len(verdicts)]

\* C4: a generation or commit error of a phase run ends the run at once with
\* that error: no sync, no review, no replan and no deployment follow it, and
\* it is not counted as a rejection
C4_PhaseRunErrorIsFatal ==
  /\ (commits # <<>> /\ ~commits[Len(commits)].acked) =>
       (pc = "thrown" /\ result.error = "commit")
  /\ (genLog # <<>> /\ genLog[Len(genLog)].failed) =>
       (pc = "thrown" /\ result.error = "generation")
  /\ (pc = "thrown" /\ result.error \in {"generation", "commit"}) =>
       /\ fetchRes = NoFetches /\ localFiles = <<>>
       /\ reviewed = NoSnapshot /\ verification = NoVerification
       /\ phaseRuns = attempt
       /\ reviewCalls = (IF rev = 1 THEN attempt - 1 ELSE 0)
       /\ Len(verdicts) = reviewCalls
       /\ replanCalls = attempt - 1
       /\ deployCalls = 0

C4_Witness ==
  /\ pc = "thrown" /\ result.error \in {"generation", "commit"}
  /\ attempt = 2 /\ commits # <<>>

\* C5: the deployment capability is called if and only if the Reviewer
\* approved an attempt and the plan is static-hosting eligible; without the
\* marker a success result has an empty deploymentUrl
C5_DeployIffApprovedAndEligible ==
  /\ deployCalls > 0 => (verification.success /\ isStaticSite(currentPlan))
  /\ (Terminal /\ verification.success /\ isStaticSite(currentPlan)) => deployCalls = 1
  /\ (result.kind = "success" /\ ~isStaticSite(currentPlan)) =>
       (deployCalls = 0 /\ result.deploymentUrl = "")

\* the reply the Reviewer got cannot be turned into a verdict
ReviewFailed(reply) ==
  \/ reply.threw
  \/ ~JSONparse(Sanitize(rev, reply.text)).ok
  \/ JSONparse(Sanitize(rev, reply.text)).value.isNull

\* C6: every call of verifyDeployment returns a VerificationResult, and when
\* the review failed the result is the failure verdict
C6_ReviewNeverThrows ==
  /\ reviewCalls = Len(verdicts)
  /\ (reviewReply # NoReply /\ ReviewFailed(reviewReply)) =>
       verification = VerificationResult(
                        FALSE, << <<"LLM Review Failed: ", REVIEW_FAILED_REASON>> >>,
                        REVIEW_FAILED_REASON)

PhaseOf(i) == ctxPlan.implementation_sequence[i].phase

\* C7: the tasks of an attempt are invoked in non-decreasing phase order
\* and, within a phase, in the order of implementation_sequence
C7_TasksInPhaseOrder ==
  \A i, j \in 1..Len(invoked) :
    i < j => /\ PhaseOf(invoked[i]) <= PhaseOf(invoked[j])
             /\ PhaseOf(invoked[i]) = PhaseOf(invoked[j]) => invoked[i] < invoked[j]

Generated(files, d) == MapHas(files, d) /\ MapGet(files, d) # <<>>

\* C8: every generation request carries the recorded content of every
\* declared dependency that was already generated in the attempt
C8_RequestCarriesDependencies ==
  \A k \in 1..Len(genLog) :
    \A d \in DeclaredDeps(ctxPlan, genLog[k].path) :
      Generated(genLog[k].seen, d) =>
        \E e \in 1..Len(genLog[k].request.dependencies) :
          genLog[k].request.dependencies[e] =
            [path |-> d, content |-> MapGet(genLog[k].seen, d)]

TasksWithFile ==
  {k \in 1..Len(invoked) :
     filePathOf(ctxPlan.implementation_sequence[invoked[k]]) # ""}

\* C9: a declared dependency that was not generated yet is left out of the
\* request and raises no error: every task that names a file is sent to the
\* generator, and a TypeError only comes from a plan without file_manifest
C9_MissingDependencyTolerated ==
  /\ \A k \in 1..Len(genLog) :
       \A d \in DeclaredDeps(ctxPlan, genLog[k].path) :
         ~Generated(genLog[k].seen, d) =>
           \A e \in 1..Len(genLog[k].request.dependencies) :
             genLog[k].request.dependencies[e].path # d
  /\ ctxPlan.has_manifest =>
       (Len(genLog) = Cardinality(TasksWithFile) /\ result.error # "TypeError")

C9_Witness ==
  /\ pc = "commit"
  /\ \E d \in DeclaredDeps(ctxPlan, genLog[Len(genLog)].path) :
       ~MapHas(genLog[Len(genLog)].seen, d)
  /\ MapHas(generatedFiles, genLog[Len(genLog)].path)

Failures == {p \in DOMAIN fetchRes : fetchRes[p].st = "failed"}

\* C10: after the sync every generated path is still recorded, in the same
\* order, with the fetched content when its fetch succeeded and the locally
\* generated content when it failed; a failed fetch does not end the
\* attempt, and the snapshot under review is that set of files
C10_SyncKeepsEveryFile ==
  DOMAIN fetchRes # {} =>
    /\ MapKeys(generatedFiles) = MapKeys(localFiles)
    /\ \A p \in DOMAIN fetchRes :
         MapGet(generatedFiles, p) =
           (IF fetchRes[p].st = "ok" THEN fetchRes[p].content ELSE MapGet(localFiles, p))
    /\ reviewed # NoSnapshot =>
         (AllSettled /\ reviewed = buildRepoSnapshot(generatedFiles))
    /\ pc = "thrown" =>
         IF rev = 1 THEN reviewed # NoSnapshot ELSE result.error = "deploy"

C10_Witness ==
  /\ reviewed # NoSnapshot
  /\ Cardinality(DOMAIN fetchRes) = 3 /\ Cardinality(Failures) = 1
  /\ \A p \in DOMAIN fetchRes \ Failures : MapGet(generatedFiles, p) \in RemoteTexts
  /\ \E p \in Failures : MapGet(generatedFiles, p) = <<"x">>

\* C11: applying the sanitizer to its own output changes nothing
C11_StripIdempotent ==
  Len(cleaned) = 2 => cleaned[2] = cleaned[1]

\* t occurs in s as one contiguous piece
IsSubstring(t, s) ==
  \E i \in 0..(Len(s) - Len(t)) : SubSeq(s, i + 1, i + Len(t)) = t

\* C12: the sanitizer only removes from the two ends of the response (its
\* output is one contiguous piece of it), a response that neither starts nor
\* ends with a fence marker comes back as its trimmed self, and the fenced
\* example comes back as its body
C12_OnlyOuterFencesRemoved ==
  Len(cleaned) >= 1 =>
    /\ IsSubstring(cleaned[1], raw)
    /\ (~startsWith(trim(raw), FENCE) /\ ~endsWith(trim(raw), FENCE)) =>
         cleaned[1] = trim(raw)
    /\ raw = FencedExample => cleaned[1] = <<"x">>

\* C13: every request of callLLMWithFallback calls the primary provider
\* exactly once and the fallback provider exactly when the primary failed,
\* once and with the arguments of the primary call; it throws exactly when
\* both failed, and then the caller sees the error (the phase run and the
\* replan end the run with it, the Reviewer turns it into its failure
\* verdict); no request makes more than two provider calls
C13_OneFallbackWithSameArguments ==
  lastCall.kind # "none" =>
    /\ lastCall.primaryCalls = 1
    /\ lastCall.fallbackCalls = (IF lastCall.primaryOk THEN 0 ELSE 1)
    /\ lastCall.primaryCalls + lastCall.fallbackCalls <= 2
    /\ lastCall.fallbackArgs = lastCall.primaryArgs
    /\ lastCall.threw = (~lastCall.primaryOk /\ ~lastCall.fallbackOk)
    /\ lastCall.threw =>
         CASE lastCall.kind = "gen" -> pc = "thrown" /\ result.error = "generation"
           [] lastCall.kind = "replan" -> pc = "thrown" /\ result.error = "replan"
           [] OTHER -> verification.reviewReason = REVIEW_FAILED_REASON

C13_Witness ==
  /\ lastCall.kind = "gen"
  /\ ~lastCall.primaryOk /\ lastCall.fallbackOk
  /\ lastCall.fallbackCalls = 1
  /\ pc = "commit"

\* processRequest is over: it returned, or it rejected
RequestTerminal == req.pc \in {"returned", "escaped"}

\* C14: when the processing of an accepted request (202) is over, a callback
\* POST to its evaluation_url was made, whether it succeeded or failed
C14_AcceptedRequestGetsCallback ==
  (req.status = 202 /\ RequestTerminal) =>
    /\ Len(req.callbacks) = 1
    /\ req.callbacks[1].url = req.evaluation_url

\* C15: an error thrown while an accepted request is processed never makes
\* processRequest reject, and once processRequest is over it was reported
\* by one callback POST with success false and the error message
C15_ErrorCaughtAndReported ==
  /\ req.pc # "escaped" /\ req.rejected = ""
  /\ (req.error # "" /\ RequestTerminal) =>
       /\ Len(req.callbacks) = 1
       /\ ~req.callbacks[1].success
       /\ req.callbacks[1].error = req.error

\* C16: every run reaches a terminal state (a success return or a thrown
\* error), and never makes more than 3 phase runs, 3 reviews and 2 replans
C16_RunTerminates ==
  /\ [](/\ phaseRuns <= MAX_ATTEMPTS
        /\ reviewCalls <= MAX_ATTEMPTS
        /\ replanCalls <= MAX_ATTEMPTS - 1)
  /\ <>Terminal

C16_Witness ==
  /\ pc = "returned" /\ result.kind = "success"
  /\ phaseRuns = MAX_ATTEMPTS /\ reviewCalls = MAX_ATTEMPTS
  /\ replanCalls = MAX_ATTEMPTS - 1

\* the Replanner's call failed on both providers, or its reply is not JSON
\* after the sanitizer
ReplanFailed ==
  /\ lastCall.kind = "replan"
  /\ lastCall.threw \/ ~JSONparse(Sanitize(rev, lastCall.text)).ok

\* C17: when the replan call fails on both providers or its reply is not
\* valid JSON, the run ends at once with that error: no attempt, review or
\* deployment follows
C17_ReplanFailureIsFatal ==
  /\ ReplanFailed =>
       /\ pc = "thrown" /\ result.kind = "error"
       /\ result.error = (IF lastCall.threw THEN "replan" ELSE "SyntaxError")
  /\ (pc = "thrown" /\ result.error \in {"replan", "SyntaxError"}) =>
       /\ ReplanFailed
       /\ replanCalls = attempt /\ phaseRuns = attempt /\ reviewCalls = attempt
       /\ deployCalls = 0

C17_Witness ==
  /\ pc = "thrown" /\ result.error = "SyntaxError"
  /\ lastCall.kind = "replan" /\ ~lastCall.threw
  /\ attempt = 2

\* C18: the attempt number is always between 1 and 3 and starts at 1; every
\* attempt makes one phase run; attempt N + 1 exists only after the reviews
\* of attempts 1..N returned rejections and N replans completed; and the
\* attempt number only changes by one, at the end of a replan that follows
\* the rejection of the attempt in progress
C18_AttemptsSequential ==
  /\ [](/\ attempt \in 1..MAX_ATTEMPTS
        /\ phaseRuns = 0 => attempt = 1
        /\ phaseRuns = (IF pc = "loop" /\ result.kind = "none" THEN attempt - 1 ELSE attempt)
        /\ Len(verdicts) \in {attempt - 1, attempt}
        /\ \A i \in 1..(attempt - 1) : ~verdicts[i]
        /\ replanCalls \in {attempt - 1, attempt}
        /\ replanCalls = attempt => (pc = "thrown" /\ ReplanFailed))
  /\ [][attempt' # attempt =>
          /\ attempt' = attempt + 1
          /\ pc = "replan" /\ pc' = "loop"
          /\ Len(verdicts) = attempt /\ ~verification.success
          /\ replanCalls' = attempt]_vars

C18_Witness ==
  /\ attempt = MAX_ATTEMPTS /\ pc = "commit"
  /\ verdicts = <<FALSE, FALSE>> /\ phaseRuns = MAX_ATTEMPTS
  /\ replanCalls = MAX_ATTEMPTS - 1

\* the content of the latest of the first n commits that wrote path p
LastCommitted(n, p) ==
  LET hits == {i \in 1..n : commits[i].files[1].path = p}
  IN commits[CHOOSE i \in hits : \A h \in hits : h <= i].files[1].content

\* C19: at most one task of an attempt is in flight: a generation call is
\* made only when every earlier task of the attempt has its commit
\* acknowledged, and it finds the content of every earlier task recorded in
\* generatedFiles
C19_OneTaskInFlight ==
  /\ Len(genLog) - Len(commits) \in {0, 1}
  /\ pc = "commit" => Len(genLog) = Len(commits) + 1
  /\ \A k \in 1..Len(genLog) :
       \A j \in 1..(k - 1) :
         /\ commits[j].acked
         /\ commits[j].task = genLog[j].task
         /\ MapHas(genLog[k].seen, genLog[j].path)
         /\ MapGet(genLog[k].seen, genLog[j].path) = LastCommitted(k - 1, genLog[j].path)

C19_Witness ==
  /\ pc = "commit" /\ Len(genLog) = 3
  /\ Len(commits) = 2 /\ commits[2].acked
  /\ MapHas(genLog[3].seen, genLog[2].path)

\* C20: the operation of every commit matches the field its path came from:
\* "create" when the task has a generate path (also when it has both),
\* "update" when the path came from the update path
C20_OperationMatchesPathField ==
  \A i \in 1..Len(commits) :
    LET task == ctxPlan.implementation_sequence[commits[i].task]
    IN /\ commits[i].files[1].path = filePathOf(task)
       /\ commits[i].files[1].operation =
            (IF task.file_to_generate # "" THEN "create" ELSE "update")

\* the tasks of the plan in progress that name no file
TasksWithoutFile ==
  {i \in DOMAIN ctxPlan.implementation_sequence :
     filePathOf(ctxPlan.implementation_sequence[i]) = ""}

\* C21: a task with neither file_to_generate nor file_to_update is skipped
\* with a warning: the step that takes it issues the warning and leaves the
\* generation requests, the provider calls, the commits and generatedFiles
\* as they were, and the phase run goes on with the task that follows it; no
\* request and no commit of the attempt belongs to such a task
C21_TaskWithoutFileSkipped ==
  /\ [](/\ \A k \in DOMAIN genLog : genLog[k].task \notin TasksWithoutFile
        /\ \A k \in DOMAIN commits : commits[k].task \notin TasksWithoutFile
        /\ \A k \in DOMAIN invoked :
             invoked[k] \in TasksWithoutFile
               <=> \E w \in DOMAIN skipWarnings : skipWarnings[w] = invoked[k])
  /\ [][(pc = "task" /\ queue # <<>> /\ Head(queue) \in TasksWithoutFile)
          => /\ skipWarnings' = Append(skipWarnings, Head(queue))
             /\ genLog' = genLog
             /\ lastCall' = lastCall
             /\ commits' = commits
             /\ generatedFiles' = generatedFiles
             /\ queue' = Tail(queue)
             /\ pc' = "task"
             /\ result' = result]_vars

\* a task was skipped after a file was generated, and the task after it is
\* being committed
C21_Witness ==
  /\ skipWarnings # <<>>
  /\ pc = "commit"
  /\ Len(invoked) = 3
  /\ invoked[2] = skipWarnings[1]
  /\ Len(genLog) = 2
  /\ generatedFiles # <<>>

\* the phase run of the attempt stopped at task t: t is the last task
\* executeTask was called for, every task before it in the order of the run
\* was taken once, and none after it was taken
AbortedAt(t) ==
  /\ pc = "thrown"
  /\ queue # <<>> /\ Head(queue) = t
  /\ invoked \o Tail(queue) = executeOrder(ctxPlan)
  /\ \A k \in DOMAIN genLog : genLog[k].task \notin {queue[j] : j \in 2..Len(queue)}
  /\ \A k \in DOMAIN commits : commits[k].task \notin {queue[j] : j \in 2..Len(queue)}
  /\ fetchRes = NoFetches
  /\ phaseRuns = attempt

\* C22: a generation or commit failure of one task aborts the phase run of
\* the attempt: the failed request or commit is the last one of the attempt,
\* no later task of the same or of a later phase is generated or committed,
\* and the failed task has one request and at most one commit (no retry)
C22_FailureAbortsPhaseRun ==
  /\ \A k \in DOMAIN genLog :
       genLog[k].failed
         => /\ k = Len(genLog)
            /\ AbortedAt(genLog[k].task)
            /\ \A j \in DOMAIN genLog : genLog[j].task = genLog[k].task => j = k
            /\ \A j \in DOMAIN commits : commits[j].task # genLog[k].task
  /\ \A k \in DOMAIN commits :
       ~commits[k].acked
         => /\ k = Len(commits)
            /\ AbortedAt(commits[k].task)
            /\ \A j \in DOMAIN commits : commits[j].task = commits[k].task => j = k
            /\ \A j, i \in DOMAIN genLog :
                 genLog[j].task = commits[k].task /\ genLog[i].task = commits[k].task
                   => j = i

\* in a plan with four tasks in two phases the first file was committed, the
\* commit of the second file was rejected, and a task is left untouched
C22_Witness ==
  /\ ctxPlan = PlanMixed
  /\ pc = "thrown"
  /\ Len(commits) = 2 /\ commits[1].acked /\ ~commits[2].acked
  /\ Len(queue) = 2
  /\ Len(invoked) = 3

\* C23: in every attempt the generations and commits come first, then the
\* settling delay and the re-fetches, then the review: fetches exist only
\* once every task was taken and every commit acknowledged, the Reviewer is
\* not invoked while a task or a fetch is outstanding, and past the sync the
\* Reviewer was invoked exactly once for each attempt whose phase run
\* completed, with every fetch settled
C23_StepsInOrder ==
  /\ fetchRes # NoFetches
       => /\ queue = <<>>
          /\ \A k \in DOMAIN commits : commits[k].acked
          /\ \A k \in DOMAIN genLog : ~genLog[k].failed
  /\ pc \in {"task", "commit", "sync"} => reviewCalls = attempt - 1
  /\ reviewed # NoSnapshot => queue = <<>> /\ AllSettled
  /\ pc \in {"deploy", "replan", "returned"}
       => /\ reviewCalls = attempt
          /\ reviewCalls = phaseRuns
          /\ queue = <<>>
          /\ AllSettled

\* what the sync makes of the files of the phase run, given how each fetch
\* settled and whatever the order in which they settled
Synced(files, fetches) ==
  [i \in 1..Len(files) |->
     [path |-> files[i].path,
      content |-> IF fetches[files[i].path].st = "ok"
                  THEN fetches[files[i].path].content
                  ELSE files[i].content]]

\* C24: the concurrent re-fetches of an attempt do not interfere: a fetch
\* that settles writes at most the entry of its own path and leaves the
\* other entries and the key set as they were, and generatedFiles is at
\* every moment of the sync, and after it, determined by how each fetch
\* settled, not by the order in which they settled
C24_FetchesDoNotInterfere ==
  /\ [](DOMAIN fetchRes # {}
          => /\ generatedFiles = Synced(localFiles, fetchRes)
             /\ MapKeySet(generatedFiles) = DOMAIN fetchRes)
  /\ [][(pc = "sync" /\ pc' = "sync")
          => \E p \in DOMAIN fetchRes :
               /\ fetchRes[p].st = "pending" /\ fetchRes'[p].st # "pending"
               /\ MapKeys(generatedFiles') = MapKeys(generatedFiles)
               /\ \A q \in DOMAIN fetchRes \ {p} :
                    /\ fetchRes'[q] = fetchRes[q]
                    /\ MapGet(generatedFiles', q) = MapGet(generatedFiles, q)]_vars

\* three fetches have settled, the first and the last path with the remote
\* content and the one between them with a failure
C24_Witness ==
  /\ pc = "sync" /\ AllSettled
  /\ Len(localFiles) = 3
  /\ fetchRes[localFiles[1].path].st = "ok"
  /\ fetchRes[localFiles[2].path].st = "failed"
  /\ fetchRes[localFiles[3].path].st = "ok"
  /\ generatedFiles # localFiles

\* the paths requested so far in the attempt in progress, before request k
RequestedBefore(k) == {genLog[j].path : j \in 1..(k - 1)}

\* C25: generatedFiles is created empty at the start of every attempt and
\* not shared between attempts: an attempt starts with no file, every
\* generation request sees exactly the paths requested before it in the same
\* attempt and never a fetched content, and the snapshot under review holds
\* exactly the files of the requests of that attempt
C25_FilesNotSharedBetweenAttempts ==
  /\ [](/\ \A k \in DOMAIN genLog :
             /\ MapKeySet(genLog[k].seen) = RequestedBefore(k)
             /\ \A i \in DOMAIN genLog[k].seen :
                  genLog[k].seen[i].content \notin RemoteTexts
        /\ MapKeySet(generatedFiles) \subseteq {genLog[k].path : k \in DOMAIN genLog}
        /\ reviewed # NoSnapshot
             => /\ reviewed = buildRepoSnapshot(generatedFiles)
                /\ {reviewed.structure[i] : i \in DOMAIN reviewed.structure}
                     = {genLog[k].path : k \in DOMAIN genLog})
  /\ [][(pc = "loop" /\ pc' = "task") => generatedFiles' = <<>>]_vars

\* the second attempt has made its first request, with no file visible,
\* after a first attempt whose files were fetched and reviewed
C25_Witness ==
  /\ attempt = 2
  /\ reviewCalls = 1
  /\ pc = "commit"
  /\ Len(genLog) = 1
  /\ genLog[1].seen = <<>>
  /\ Len(generatedFiles) = 1

\* the plan the Replanner's reply stands for
ReplannedPlan(call) == PlanOfChar(trim(Sanitize(rev, call.text))[1])

\* C26: a rejection at attempt N < 3 is followed by exactly one call of the
\* Replanner, made with the plan of attempt N and the reviewReason of its
\* verification; when the call returns a plan, that plan is the plan of
\* attempt N+1 and attempt grows by exactly 1. The caller-supplied plan is
\* the plan of attempt 1, and every attempt runs on the plan current at its
\* start
C26_ReplanFeedsNextAttempt ==
  /\ [](/\ pc = "replan"
             => /\ ~verification.success
                /\ attempt < MAX_ATTEMPTS
                /\ replanCalls = attempt - 1
                /\ ctxPlan = currentPlan
        /\ attempt = 1 => currentPlan = initialPlan
        /\ pc \in {"task", "commit", "sync", "deploy"} => ctxPlan = currentPlan
        /\ (pc = "loop" /\ attempt > 1)
             => /\ replanCalls = attempt - 1
                /\ lastCall.kind = "replan"
                /\ currentPlan = ReplannedPlan(lastCall))
  /\ [][pc = "replan"
          => /\ replanCalls' = replanCalls + 1
             /\ lastCall'.kind = "replan"
             /\ lastCall'.primaryArgs.prompt
                  = replanPrompt(ctxPlan, verification.reviewReason)
             /\ IF pc' = "loop"
                THEN /\ attempt' = attempt + 1
                     /\ currentPlan' = ReplannedPlan(lastCall')
                ELSE /\ pc' = "thrown"
                     /\ attempt' = attempt
                     /\ currentPlan' = currentPlan]_vars

\* the third attempt is about to start on the plan of the second replan,
\* which was asked for with the plan of the second attempt, a plan other
\* than the caller's
C26_Witness ==
  /\ pc = "loop"
  /\ attempt = 3
  /\ replanCalls = 2
  /\ lastCall.primaryArgs.prompt.previousPlan # initialPlan
  /\ currentPlan # lastCall.primaryArgs.prompt.previousPlan

\* enableAndDeployPages threw
DeployThrew == pc = "thrown" /\ result.error = "deploy"

\* C27: when the attempt was approved, the plan is static-hosting eligible
\* and enableAndDeployPages throws, executeOrchestrator ends with that
\* error: the awaited deployment either yields the URL of a success result
\* or ends the run with an error result, and after the error nothing is
\* returned, no replan is made and no attempt is started
C27_DeployErrorIsFatal ==
  /\ [](DeployThrew
          => /\ result.kind = "error"
             /\ result.deploymentUrl = ""
             /\ deployCalls = 1
             /\ replanCalls = attempt - 1
             /\ phaseRuns = attempt
             /\ isStaticSite(ctxPlan)
             /\ rev = 1 => verification.success)
  /\ [][pc = "deploy"
          => \/ /\ pc' = "returned"
                /\ result'.kind = "success"
                /\ result'.deploymentUrl = DeployedUrl
             \/ /\ pc' = "thrown"
                /\ result'.kind = "error"
                /\ result'.error = "deploy"
                /\ attempt' = attempt
                /\ replanCalls' = replanCalls
                /\ phaseRuns' = phaseRuns]_vars
  /\ [][~DeployThrew]_vars

\* the second attempt was approved and its deployment threw
C27_Witness ==
  /\ DeployThrew
  /\ rev = 1
  /\ attempt = 2
  /\ verification.success
  /\ verdicts = <<FALSE, TRUE>>

\* the verdict the Reviewer parsed from the reply it was given
ParsedVerdict == JSONparse(Sanitize(rev, reviewReply.text))

\* C28: the Reviewer approves only on a parsed verdict whose approved field
\* is the boolean true: a result with success = true comes from a reply that
\* was received, parsed and has approved = true, and a verdict whose
\* approved field is false, missing or not a boolean (the string "true")
\* gives success = false
C28_ApprovedOnlyOnBooleanTrue ==
  reviewCalls = 1 =>
    /\ verification.success
         => /\ ~reviewReply.threw
            /\ ParsedVerdict.ok
            /\ ~ParsedVerdict.value.isNull
            /\ ParsedVerdict.value.approved = "true"
    /\ (~reviewReply.threw /\ ParsedVerdict.ok
          /\ ParsedVerdict.value.approved \in {"false", "string", "undefined"})
         => /\ ~verification.success
            /\ verification.errors # <<>>

\* the reply was the verdict with approved: "true", a string, and the
\* attempt was rejected
C28_Witness ==
  /\ reviewCalls = 1
  /\ reviewReply.text = <<"S">>
  /\ ParsedVerdict.value.approved = "string"
  /\ ~verification.success

\* the reason the Reviewer gives for the reply it was given: the reason of
\* the verdict, the default when the verdict has none, and the failure
\* reason when no verdict could be read
ReasonGiven ==
  IF reviewReply.threw \/ ~ParsedVerdict.ok \/ ParsedVerdict.value.isNull
  THEN REVIEW_FAILED_REASON
  ELSE IF ParsedVerdict.value.reason = "" THEN NO_REASON
  ELSE ParsedVerdict.value.reason

\* C29: every VerificationResult of verifyDeployment has success = true
\* exactly when errors is empty; on a rejection errors is the one element
\* "LLM Review Failed: <reason>" and reviewReason is that reason; warnings
\* is empty; and reviewReason is the reason the Reviewer gave
C29_VerificationResultShape ==
  reviewCalls = 1 =>
    /\ verification.success <=> verification.errors = <<>>
    /\ ~verification.success
         => /\ Len(verification.errors) = 1
            /\ verification.errors[1] = <<"LLM Review Failed: ", verification.reviewReason>>
    /\ verification.warnings = <<>>
    /\ verification.reviewReason = ReasonGiven
    /\ verification.reviewReason # ""

\* the verdict without an approved field, padded with white space, was
\* rejected with its own reason
C29_Witness ==
  /\ reviewCalls = 1
  /\ reviewReply.text = <<" ", "M", NL>>
  /\ ~verification.success
  /\ verification.reviewReason = "bad"
  /\ verification.errors = << <<"LLM Review Failed: ", "bad">> >>

\* C30: a generation call that exceeds the client timeout is reported as a
\* failure like a transport error: once the timeout has elapsed on a call,
\* the call has rejected or had resolved before; a rejected primary call is
\* followed by the one call of the fallback; no third call is made; and what
\* callLLMWithFallback returns is what the call it awaited resolved with,
\* never a response that arrived late
C30_TimeoutIsFailure ==
  /\ \A i \in DOMAIN llm.calls :
       /\ llm.calls[i].exceeded
            => \/ llm.calls[i].stage = "rejected"
               \/ llm.calls[i].stage = "resolved" /\ ~llm.calls[i].overran
       /\ llm.calls[i].stage = "resolved" => ~llm.calls[i].overran
  /\ Len(llm.calls) <= 2
  /\ (llm.calls # <<>> /\ llm.calls[1].stage = "rejected")
       => Len(llm.calls) = 2 /\ llm.calls[2].client = llm.fallback
  /\ llm.pc = "returned"
       => /\ llm.calls[Len(llm.calls)].stage = "resolved"
          /\ llm.calls[Len(llm.calls)].late = <<>>
          /\ llm.text = llm.calls[Len(llm.calls)].text

\* the requests of the attempt in progress that were answered
Answered == {k \in DOMAIN genLog : ~genLog[k].failed}

\* C32: every task that names a file and whose generation succeeded issues
\* exactly one commit: the commits of an attempt are, in order, those of its
\* answered requests, each with the one file of the task's target path, and
\* the step that commits submits the content recorded in generatedFiles for
\* that path with a message of the task name, the path and the attempt (the
\* number of phase runs started so far)
C32_OneCommitPerGeneratedTask ==
  /\ [](/\ \A k \in DOMAIN commits :
             /\ k \in Answered
             /\ commits[k].task = genLog[k].task
             /\ Len(commits[k].files) = 1
             /\ commits[k].files[1].path = genLog[k].path
             /\ commits[k].files[1].path
                  = filePathOf(ctxPlan.implementation_sequence[commits[k].task])
             /\ commits[k].message
                  = <<ctxPlan.implementation_sequence[commits[k].task].name,
                      genLog[k].path, phaseRuns>>
             /\ \A j \in DOMAIN commits : commits[j].task = commits[k].task => j = k
        /\ Cardinality(Answered) - Len(commits) = (IF pc = "commit" THEN 1 ELSE 0))
  /\ [][pc = "commit"
          => /\ Len(commits') = Len(commits) + 1
             /\ commits'[Len(commits')].task = Head(queue)
             /\ commits'[Len(commits')].files[1].content
                  = MapGet(generatedFiles, filePathOf(CurrentTask))
             /\ commits'[Len(commits')].message
                  = <<CurrentTask.name, filePathOf(CurrentTask), attempt>>
             /\ generatedFiles' = generatedFiles]_vars

\* in the second attempt the second file was committed
C32_Witness ==
  /\ attempt = 2
  /\ Len(commits) = 2
  /\ commits[2].message[3] = 2
  /\ commits[2].files[1].content # <<>>
  /\ pc = "task"

\* the review of the attempt could not be had: both providers failed or the
\* reply was no verdict
ReviewInfrastructureFailed == reviewReply # NoReply /\ ReviewFailed(reviewReply)

\* verifyDeployment itself threw in the attempt in progress
ReviewThrew ==
  /\ pc = "thrown" /\ result.error = "TypeError"
  /\ queue = <<>> /\ reviewCalls = phaseRuns

\* C33: a failure of the review infrastructure is handled like a rejection:
\* the verification is a rejection with the reason "LLM review process
\* failed", before attempt 3 the loop goes on to the Replanner, which is
\* called with that reason, and only at attempt 3 does it end the run, with
\* the final rejection; verifyDeployment throws for no failed call and no
\* unreadable verdict (only for a plan without file_manifest)
C33_ReviewFailureIsRejection ==
  /\ [](/\ ReviewInfrastructureFailed
             => /\ ~verification.success
                /\ verification.reviewReason = REVIEW_FAILED_REASON
                /\ pc # "returned"
                /\ pc = "thrown"
                     => \/ attempt = MAX_ATTEMPTS /\ result.error = FinalRejection
                        \/ /\ attempt < MAX_ATTEMPTS
                           /\ result.error \in {"replan", "SyntaxError"}
        /\ ReviewThrew => ~ctxPlan.has_manifest)
  /\ [][(pc = "sync" /\ pc' # "sync" /\ reviewReply' # NoReply /\ ReviewFailed(reviewReply'))
          => IF attempt < MAX_ATTEMPTS
             THEN pc' = "replan" /\ attempt' = attempt
             ELSE pc' = "thrown" /\ result'.error = FinalRejection]_vars
  /\ [][(pc = "replan" /\ ReviewInfrastructureFailed)
          => /\ replanCalls' = replanCalls + 1
             /\ lastCall'.kind = "replan"
             /\ lastCall'.primaryArgs.prompt.feedback = REVIEW_FAILED_REASON]_vars

\* both providers failed in the review of the first attempt, and the second
\* attempt is about to start on the plan replanned for that reason
C33_Witness ==
  /\ pc = "loop"
  /\ attempt = 2
  /\ reviewReply.threw
  /\ verification.reviewReason = REVIEW_FAILED_REASON
  /\ lastCall.kind = "replan"
  /\ lastCall.primaryArgs.prompt.feedback = REVIEW_FAILED_REASON

\* C34: static-hosting eligibility is evaluated on the plan of the approved
\* attempt, not on the caller-supplied plan: the deployment is reached only
\* with an eligible plan of the attempt in progress, and a success result
\* comes with a deployment exactly when that plan is eligible
C34_EligibilityOfApprovedPlan ==
  /\ (pc = "deploy" \/ deployCalls > 0) => isStaticSite(ctxPlan)
  /\ result.kind = "success"
       => /\ deployCalls = 1 <=> isStaticSite(ctxPlan)
          /\ result.deploymentUrl = DeployedUrl <=> isStaticSite(ctxPlan)
          /\ result.deploymentUrl = "" <=> ~isStaticSite(ctxPlan)

\* the caller's plan was not eligible, the plan replanned for the second
\* attempt is, and the approved second attempt was deployed
C34_Witness ==
  /\ pc = "returned"
  /\ result.attempts = 2
  /\ ~isStaticSite(initialPlan)
  /\ isStaticSite(ctxPlan)
  /\ deployCalls = 1
  /\ result.deploymentUrl = DeployedUrl

\* the target paths of the answered requests of the attempt in progress
AnsweredPaths == {genLog[k].path : k \in Answered}

\* the first and the latest answered request for path p
FirstFor(p) ==
  CHOOSE k \in Answered :
    genLog[k].path = p /\ \A j \in Answered : genLog[j].path = p => k <= j

LatestFor(p) ==
  CHOOSE k \in Answered :
    genLog[k].path = p /\ \A j \in Answered : genLog[j].path = p => j <= k

\* the content request k was answered with: what its commit carries, or the
\* content about to be committed
ProducedBy(k) ==
  IF k \in DOMAIN commits THEN commits[k].files[1].content ELSE content

\* C35: at every point of a phase run generatedFiles has exactly one entry
\* per target path of the tasks generated so far in the attempt, in the
\* order of the first generation of each path, and the entry of a path holds
\* the content of the latest task that targeted it
C35_OneEntryPerTargetPath ==
  fetchRes = NoFetches =>
    /\ Len(generatedFiles) = Cardinality(AnsweredPaths)
    /\ MapKeySet(generatedFiles) = AnsweredPaths
    /\ \A i, j \in DOMAIN generatedFiles :
         i < j => FirstFor(generatedFiles[i].path) < FirstFor(generatedFiles[j].path)
    /\ \A i \in DOMAIN generatedFiles :
         generatedFiles[i].content = ProducedBy(LatestFor(generatedFiles[i].path))

\* a.js was generated, then b.js, then a.js again by an update task with
\* another content: a.js is still the first entry and holds the new content
C35_Witness ==
  /\ pc = "commit"
  /\ Len(genLog) = 3
  /\ genLog[3].path = genLog[1].path
  /\ Len(generatedFiles) = 2
  /\ generatedFiles[1].path = genLog[1].path
  /\ generatedFiles[1].content = content
  /\ content # commits[1].files[1].content

\* processRequest was invoked for the request
Processing == req.pc \notin {"none", "received", "replied"}

\* C39 as stated: processing is started only for a request whose secret
\* equals the configured server secret; the request is answered 500 when no
\* server secret is configured and 401 when the secret differs, and then
\* processRequest is never invoked; processing starts with the 202 sent
C39_OnlyEqualSecretProcessed ==
  req.pc \notin {"none", "received"} =>
    /\ req.status = 500 <=> req.SECRET_KEY = <<>>
    /\ req.status = 401 <=> (req.SECRET_KEY # <<>> /\ req.secret # req.SECRET_KEY)
    /\ req.status \in {500, 401}
         => ~Processing /\ req.logged = <<>> /\ req.callbacks = <<>>
    /\ Processing => req.status = 202 /\ req.secret = req.SECRET_KEY

\* C39 amended: the secrets are compared after the request's secret is
\* converted to a string and the white space around it is removed
C39_OnlyTrimmedSecretProcessed ==
  req.pc \notin {"none", "received"} =>
    /\ req.status = 500 <=> req.SECRET_KEY = <<>>
    /\ req.status = 401 <=> (req.SECRET_KEY # <<>> /\ trim(StringOf(req.secret)) # req.SECRET_KEY)
    /\ req.status \in {500, 401}
         => ~Processing /\ req.logged = <<>> /\ req.callbacks = <<>>
    /\ Processing => req.status = 202 /\ trim(StringOf(req.secret)) = req.SECRET_KEY

\* a request whose secret is the server secret with white space around it
\* was acknowledged and is being processed
C39_Witness ==
  /\ Processing
  /\ req.status = 202
  /\ req.secret \notin {req.SECRET_KEY, NoSecret}
  /\ trim(StringOf(req.secret)) = req.SECRET_KEY
  /\ req.logged # <<>>

\* C40: at most one callback POST is attempted per accepted request and none
\* for another request; the step of sendCallback attempts exactly one POST
\* and, delivered or not, processRequest returns after it without an error
\* and without a further callback
C40_AtMostOneCallback ==
  /\ [](/\ Len(req.callbacks) <= 1
        /\ req.callbacks # <<>> => req.status = 202 /\ req.pc = "returned"
        /\ req.pc = "returned" => req.rejected = "")
  /\ [][req.pc = "callback" =>
          /\ Len(req'.callbacks) = 1
          /\ req'.pc = "returned"
          /\ req'.rejected = ""]_vars

\* the only callback POST of an accepted request failed and processRequest
\* returned normally
C40_Witness ==
  /\ req.pc = "returned"
  /\ req.status = 202
  /\ Len(req.callbacks) = 1
  /\ ~req.callbacks[1].delivered
  /\ req.evaluation_url # ""
  /\ req.rejected = ""

\* the calls of getAuthenticatedUser whose request to /user did not fail
IdentityRequests ==
  { i \in DOMAIN gh.callers : gh.callers[i].requested /\ gh.callers[i].pc # "threw" }

\* C31: across any interleaving of concurrent callers the identity request
\* is issued once (a failed request aside), a call made when the identity is
\* cached returns the cached value without a request, and the cached
\* identity is never replaced or dropped
C31_IdentityFetchedOnce ==
  /\ [](Cardinality(IdentityRequests) <= 1)
  /\ [][gh.cachedUser.truthy => gh'.cachedUser = gh.cachedUser]_vars
  /\ [][\A i \in DOMAIN gh.callers :
          gh.cachedUser.truthy /\ gh.callers[i].pc = "start" /\ gh'.callers[i].pc # "start"
            => gh'.callers[i].returned = gh.cachedUser /\ ~gh'.callers[i].requested]_vars

\* C36: every mutation carries the head read in the same call as
\* expectedHeadOid; a commit is applied only on the head it was based on, so
\* no commit is placed over a commit its writer did not see; and a call whose
\* commit was not applied throws, it never returns normally
C36_StaleCommitRejected ==
  /\ \A w \in DOMAIN gh.writers :
       /\ gh.writers[w].pc \in {"resolved", "threw"} /\ gh.writers[w].applied
            => gh.writers[w].expectedHeadOid = gh.writers[w].branchOid
       /\ gh.writers[w].pc = "resolved" => gh.writers[w].applied
       /\ gh.writers[w].applied => gh.writers[w].pc = "resolved"
  /\ \A k \in DOMAIN gh.branch : gh.branch[k].parent = k - 1

\* the answer of a status read reports a built site with a URL
Built(o) ==
  /\ o.ok /\ ~o.undefined
  /\ Member(o.value, "status") = "built"
  /\ ~Falsy(Member(o.value, "html_url"))

\* the answer of a status read carries a URL
HasUrl(o) == o.ok /\ ~o.undefined /\ ~Falsy(Member(o.value, "html_url"))

\* C37: the status is polled at most 20 times; a poll returns the site URL
\* exactly when it reports "built" with a URL, and any other poll, a failing
\* one included, is followed by the next poll or by the end of the polling;
\* after 20 polls without "built" the function returns the URL of one final
\* status read or, if that has none, the default URL
C37_PollingBounded ==
  /\ [](/\ gh.polls <= 20
        /\ gh.pc = "final" => gh.polls = 20)
  /\ [][gh.pc = "poll" =>
          IF Built(gh'.polled)
          THEN gh'.pc = "returned" /\ gh'.url = << gh'.polled.value["html_url"] >>
          ELSE gh'.pc \in {"poll", "final"}]_vars
  /\ [][gh.pc = "final" =>
          /\ gh'.pc = "returned"
          /\ gh'.url = IF HasUrl(gh'.polled)
                       THEN << gh'.polled.value["html_url"] >>
                       ELSE <<"https://", "octo", ".github.io/", "site", "/">>]_vars

\* enablePages failed with the status 409
Conflict(o) == ~o.ok /\ Len(o.message) >= 2 /\ o.message[1] = "HTTP" /\ o.message[2] = "409"

\* C38: the existing site is read only after enablePages failed with a 409;
\* then its URL is returned when the read reports one; every other error of
\* enablePages is thrown again as it is
C38_ConflictReturnsExistingSite ==
  /\ [](gh.pc = "existing" => gh.caughtAt = "enable" /\ Conflict(gh.enabled))
  /\ [][gh.pc = "enable" /\ ~gh'.enabled.ok =>
          IF Conflict(gh'.enabled)
          THEN gh'.pc = "existing"
          ELSE gh'.pc = "threw" /\ gh'.threw = gh'.enabled.message]_vars
  /\ [][gh.pc = "existing" /\ HasUrl(gh'.polled) =>
          gh'.pc = "returned" /\ gh'.url = << gh'.polled.value["html_url"] >>]_vars

====
